---- MODULE Spec2Model ----
(***************************************************************************)
(* A model of the prediction feature pipeline of Dashboard-ShriMP:         *)
(* queries.py (get_prediction_data and the five per-source readers) and    *)
(* pages/1_Prediction.py (predict, process_display_data and the table      *)
(* builders).                                                              *)
(*                                                                         *)
(* Dates are day numbers (days since 1970-01-01).  Numbers are exact       *)
(* rationals <<n, d>> with d > 0, in lowest terms; <<0, 0>> is NaN, the    *)
(* missing value of pandas.  A column name is a record                     *)
(* [fam, lin, slot]: the f-string "fam_lin_slot" of the code.              *)
(***************************************************************************)
EXTENDS Integers, Sequences, FiniteSets, TLC

VARIABLES
    cliente,             \* table cliente: rows [id_cliente, cod_cliente, des_cliente]
    producto,            \* table producto: rows [id_producto, cod_sku, familia, grupo_linea]
    venta,               \* table venta: rows [id_cliente, id_producto, fecha_emision, toneladas]
    sow,                 \* table sow: rows [id_cliente, fecha_periodo, potencial_grupo, nicovita, sow_max_alcanzable]
    precio_camaron,      \* table precio_camaron: rows [fecha, precio]
    exportacion,         \* table exportacion: rows [fecha, total_lb, total_fob]
    materia_prima,       \* table materia_prima: rows [fecha, total_usd, libras_neto]
    columns_cfg,         \* columns_data.json: [columns_out, columns_order, columns_promedio]
    model,               \* the loaded Keras model: [n_features_in, n_features_out]
    pc,                  \* position of the page script of one prediction request
    date,                \* the target date of the request
    prediction_input,    \* what get_prediction_data returned: [data, status]
    parts,               \* the per-source tables get_prediction_data built
    predicted,           \* what predict computed on its way to its result
    model_prediction,    \* what predict returned
    display,             \* what process_display_data built
    excel,               \* the workbook write_excel built
    upload,              \* the upload page: its last submit, see Submitted
    uploading,           \* per session, the upload that passed its checks: [tabla, data]
    cache,               \* st.cache_data: per cached function, its entries [key, value]
    answered             \* history: [date, prediction_input] of the requests of earlier runs

vars == <<cliente, producto, venta, sow, precio_camaron, exportacion, materia_prima,
          columns_cfg, model, pc, date, prediction_input, parts, predicted,
          model_prediction, display, excel, upload, uploading, cache, answered>>

request == <<pc, date, prediction_input, parts, predicted, model_prediction, display, excel,
             cache, answered>>

\* The entries of a cached function under a key, and the cache with an entry more.
Entries(name, key) == {e \in cache[name] : e.key = key}
Stored(name, key) == (CHOOSE e \in Entries(name, key) : TRUE).value
Store(c, name, key, value) == [c EXCEPT ![name] = @ \cup {[key |-> key, value |-> value]}]

EmptyCache == [get_prediction_data |-> {}, predict |-> {}, build_week_dataframes |-> {}]

\* A clear that leaves every entry in place.
st_cache_data_keep(c) == c

\* st.cache_data.clear()
st_cache_data_clear(c) == EmptyCache

store == <<cliente, producto, venta, sow, precio_camaron, exportacion, materia_prima,
           columns_cfg, model>>

-----------------------------------------------------------------------------
(* Sequences *)

Range(s) == {s[i] : i \in DOMAIN s}

NoDuplicates(s) == \A i, j \in DOMAIN s : i # j => s[i] # s[j]

RECURSIVE Flatten(_)
Flatten(ss) == IF ss = <<>> THEN <<>> ELSE Head(ss) \o Flatten(Tail(ss))

\* The members of the set of integers S in increasing order.
SortedSeq(S) ==
    [k \in 1..Cardinality(S) |-> CHOOSE x \in S : Cardinality({y \in S : y <= x}) = k]

\* The members of s, each once, in the order of their first occurrence.
Unique(s) ==
    LET first == SortedSeq({i \in DOMAIN s : \A j \in 1..(i - 1) : s[j] # s[i]})
    IN  [k \in DOMAIN first |-> s[first[k]]]

\* Python's s[a:b] for 0 <= a <= b.
Slice(s, a, b) ==
    LET hi == IF b < Len(s) THEN b ELSE Len(s)
    IN  IF a >= hi THEN <<>> ELSE SubSeq(s, a + 1, hi)

\* DataFrame.tail(n)
TailN(s, n) == IF Len(s) <= n THEN s ELSE SubSeq(s, Len(s) - n + 1, Len(s))

-----------------------------------------------------------------------------
(* Numbers: float arithmetic as exact rationals, NaN included *)

Abs(n) == IF n < 0 THEN 0 - n ELSE n

RECURSIVE Gcd(_, _)
Gcd(a, b) == IF b = 0 THEN a ELSE Gcd(b, a % b)

NaN == <<0, 0>>
IsNaN(x) == x[2] = 0

QNorm(n, d) ==
    LET g == Gcd(Abs(n), d)
    IN  IF d = 0 THEN NaN ELSE <<n \div g, d \div g>>

Q(n) == <<n, 1>>
Zero == Q(0)
One == Q(1)

QAdd(x, y) == IF IsNaN(x) \/ IsNaN(y) THEN NaN
              ELSE QNorm(x[1] * y[2] + y[1] * x[2], x[2] * y[2])
QSub(x, y) == IF IsNaN(x) \/ IsNaN(y) THEN NaN
              ELSE QNorm(x[1] * y[2] - y[1] * x[2], x[2] * y[2])
QMul(x, y) == IF IsNaN(x) \/ IsNaN(y) THEN NaN
              ELSE QNorm(x[1] * y[1], x[2] * y[2])
\* x / y for y > 0
QDiv(x, y) == IF IsNaN(x) \/ IsNaN(y) THEN NaN
              ELSE QNorm(x[1] * y[2], x[2] * y[1])
\* x <= y; False when either is NaN, as every float comparison with NaN
QLeq(x, y) == ~IsNaN(x) /\ ~IsNaN(y) /\ x[1] * y[2] <= y[1] * x[2]

\* DataFrame.fillna(0) on one cell
FillNa(x) == IF IsNaN(x) THEN Zero ELSE x

\* The sum of xs[lo..hi] with NaN skipped, by halves.
RECURSIVE SumRange(_, _, _)
SumRange(xs, lo, hi) ==
    IF lo > hi THEN Zero
    ELSE IF lo = hi THEN FillNa(xs[lo])
    ELSE QAdd(SumRange(xs, lo, (lo + hi) \div 2), SumRange(xs, (lo + hi) \div 2 + 1, hi))

\* The "sum" aggregation of pandas: NaN skipped, the empty sum is 0.
AggSum(xs) == SumRange(xs, 1, Len(xs))

\* The "mean" aggregation of pandas: NaN skipped, the empty mean is NaN.
AggMean(xs) ==
    LET ok == SelectSeq(xs, LAMBDA x : ~IsNaN(x))
    IN  IF ok = <<>> THEN NaN ELSE QDiv(AggSum(ok), Q(Len(ok)))

-----------------------------------------------------------------------------
(* Calendar: datetime.date, timedelta, .dt.month, isocalendar().week *)

IsLeap(y) == (y % 4 = 0 /\ y % 100 # 0) \/ y % 400 = 0

DaysInYear(y) == IF IsLeap(y) THEN 366 ELSE 365

DaysInMonth(y, m) ==
    IF m = 2 THEN (IF IsLeap(y) THEN 29 ELSE 28)
    ELSE IF m \in {4, 6, 9, 11} THEN 30 ELSE 31

\* The day number of January 1st of year y >= 1970: 365 days a year and one
\* more for every leap year since 1970.
YearStart(y) ==
    365 * (y - 1970) + (y - 1969) \div 4 - (y - 1901) \div 100 + (y - 1601) \div 400

\* The year of day number d >= 0.
RECURSIVE YearFrom(_, _)
YearFrom(y, d) == IF d < YearStart(y + 1) THEN y ELSE YearFrom(y + 1, d)
YearOf(d) == YearFrom(1970 + d \div 366, d)

RECURSIVE MonthFrom(_, _, _)
MonthFrom(y, m, rest) ==
    IF rest < DaysInMonth(y, m) THEN m ELSE MonthFrom(y, m + 1, rest - DaysInMonth(y, m))

\* .dt.month
MonthOf(d) == MonthFrom(YearOf(d), 1, d - YearStart(YearOf(d)))

\* date.weekday(): Monday is 0.  1970-01-01 was a Thursday.
Weekday(d) == (d + 3) % 7

\* The label of the bin of resample("W"): the Sunday on or after d.
WeekEnd(d) == d + (6 - Weekday(d))

\* isocalendar().week: the week of the year of the Thursday of d's week.
IsoWeek(d) ==
    LET thu == d - Weekday(d) + 3
    IN  (thu - YearStart(YearOf(thu))) \div 7 + 1

\* strftime("%Y-%m-%d"): the text of a date, as <<year, month, day>>.
Strftime(d) ==
    LET y == YearOf(d)
        m == MonthOf(d)
        RECURSIVE Before(_)
        Before(k) == IF k = 0 THEN 0 ELSE Before(k - 1) + DaysInMonth(y, k)
    IN  <<y, m, d - YearStart(y) - Before(m - 1) + 1>>

\* pd.to_datetime of such a text: the day number again.
ToDatetime(s) ==
    LET RECURSIVE Before(_)
        Before(k) == IF k = 0 THEN 0 ELSE Before(k - 1) + DaysInMonth(s[1], k)
    IN  YearStart(s[1]) + Before(s[2] - 1) + s[3] - 1

-----------------------------------------------------------------------------
(* DataFrames: [cols: the column names in order, rows: the rows in order]; *)
(* a row carries its key fields and v, its cell of every column.           *)

Col(fam, lin, slot) == [fam |-> fam, lin |-> lin, slot |-> slot]

EmptyFrame == [cols |-> <<>>, rows |-> <<>>]

\* A reindex that keeps the frame as it is.
ReindexKeep(df, cols) == df

\* DataFrame.reindex(columns=cols, fill_value=0): exactly the columns cols, in
\* that order; a column the frame lacks is filled with 0.
Reindex(df, cols) ==
    LET have == Range(df.cols)
    IN  [cols |-> cols,
         rows |-> [i \in DOMAIN df.rows |->
                     [df.rows[i] EXCEPT !.v =
                        [c \in Range(cols) |-> IF c \in have THEN @[c] ELSE Zero]]]]

\* pd.concat([esperado, df]) with esperado an empty frame of columns cols: the
\* columns of both, those of esperado first, a missing cell NaN.
ConcatEsperado(cols, df) ==
    LET have == Range(df.cols)
        all == cols \o SelectSeq(df.cols, LAMBDA c : c \notin Range(cols))
    IN  [cols |-> all,
         rows |-> [i \in DOMAIN df.rows |->
                     [df.rows[i] EXCEPT !.v =
                        [c \in Range(all) |-> IF c \in have THEN @[c] ELSE NaN]]]]

\* DataFrame.fillna(0)
FillNaFrame(df) ==
    [df EXCEPT !.rows = [i \in DOMAIN df.rows |->
        [df.rows[i] EXCEPT !.v = [c \in DOMAIN @ |-> FillNa(@[c])]]]]

-----------------------------------------------------------------------------
(* queries.py: get_ventas_for_prediction *)

NumSlots == 7
lineas == <<"SEEDING", "VOLUMA">>
CodBase == 2100000

\* SELECT DISTINCT familia FROM producto
data_familias(prod) == Unique([i \in DOMAIN prod |-> prod[i].familia])

familias_lineas(prod) ==
    LET fams == data_familias(prod)
    IN  Flatten([i \in DOMAIN fams |->
                   [j \in DOMAIN lineas |-> <<fams[i], lineas[j]>>]])

\* The canonical sales columns of a product table, client-major.
CanonicalVentas(prod) ==
    LET fl == familias_lineas(prod)
    IN  Flatten([c \in 1..NumSlots |->
                   [k \in DOMAIN fl |-> Col(fl[k][1], fl[k][2], c)]])

columnas_esperadas_ventas == CanonicalVentas(producto)

\* venta INNER JOIN cliente LEFT JOIN producto WHERE fecha_emision BETWEEN
\* desde AND hasta.  Every sale of the store names a product of the store.
data_ventas(fecha_desde, fecha_hasta) ==
    Flatten([i \in DOMAIN venta |->
        IF venta[i].fecha_emision < fecha_desde \/ venta[i].fecha_emision > fecha_hasta
        THEN <<>>
        ELSE LET cs == SelectSeq(cliente, LAMBDA c : c.id_cliente = venta[i].id_cliente)
                 ps == SelectSeq(producto, LAMBDA p : p.id_producto = venta[i].id_producto)
             IN  Flatten([a \in DOMAIN cs |-> [b \in DOMAIN ps |->
                    [COD_CLIENTE |-> cs[a].cod_cliente,
                     FECHA |-> venta[i].fecha_emision,
                     TONELADAS |-> venta[i].toneladas,
                     FAMILIA_LINEA |-> <<ps[b].familia, ps[b].grupo_linea>>,
                     CLIENTE_LINEA |-> Col(ps[b].familia, ps[b].grupo_linea,
                                           cs[a].cod_cliente - CodBase)]]])])

\* pivot_table(index=FECHA, columns=CLIENTE_LINEA, values=TONELADAS,
\* aggfunc="sum").fillna(0)
PivotVentas(data) ==
    LET fechas == SortedSeq({r.FECHA : r \in Range(data)})
        names == Unique([i \in DOMAIN data |-> data[i].CLIENTE_LINEA])
        Cell(d, c) ==
            LET hit == SelectSeq(data, LAMBDA r : r.FECHA = d /\ r.CLIENTE_LINEA = c)
            IN  IF hit = <<>> THEN NaN
                ELSE AggSum([i \in DOMAIN hit |-> Q(hit[i].TONELADAS)])
    IN  FillNaFrame(
          [cols |-> names,
           rows |-> [i \in DOMAIN fechas |->
                       [FECHA |-> fechas[i],
                        v |-> [c \in Range(names) |-> Cell(fechas[i], c)]]]])

get_ventas_for_prediction(fecha_desde, fecha_hasta) ==
    LET data == data_ventas(fecha_desde, fecha_hasta)
        lins == Unique([i \in DOMAIN data |-> data[i].FAMILIA_LINEA])
        columnas == Flatten([c \in 1..NumSlots |->
                       [k \in DOMAIN lins |-> Col(lins[k][1], lins[k][2], c)]])
        pivot == Reindex(PivotVentas(data), columnas)
        wide == Reindex(pivot, columnas_esperadas_ventas)
        df_resultado == FillNaFrame(ConcatEsperado(columnas_esperadas_ventas, wide))
    IN  [cols |-> df_resultado.cols,
         rows |-> [i \in DOMAIN df_resultado.rows |->
                     [FECHA |-> df_resultado.rows[i].FECHA,
                      MES |-> MonthOf(df_resultado.rows[i].FECHA),
                      v |-> df_resultado.rows[i].v]]]

-----------------------------------------------------------------------------
(* queries.py: get_sow_for_prediction *)

columnas_sow == <<"NICOVITA", "POTENCIAL_GRUPO", "SOW_MAX_ALCANZABLE">>

\* The canonical share-of-wallet columns, client-major.
columnas_esperadas_sow ==
    Flatten([c \in 1..NumSlots |->
               [k \in DOMAIN columnas_sow |-> Col(columnas_sow[k], "", c)]])

\* column[1][-1]: the last character of the client code, a digit.
LastChar(cod) == cod % 10

\* sow INNER JOIN cliente WHERE YEAR(fecha_periodo) = YEAR(desde) AND
\* MONTH(fecha_periodo) >= MONTH(desde) AND YEAR(fecha_periodo) = YEAR(hasta)
\* AND MONTH(fecha_periodo) <= MONTH(hasta)
data_sow(fecha_desde, fecha_hasta) ==
    Flatten([i \in DOMAIN sow |->
        IF /\ YearOf(sow[i].fecha_periodo) = YearOf(fecha_desde)
           /\ MonthOf(sow[i].fecha_periodo) >= MonthOf(fecha_desde)
           /\ YearOf(sow[i].fecha_periodo) = YearOf(fecha_hasta)
           /\ MonthOf(sow[i].fecha_periodo) <= MonthOf(fecha_hasta)
        THEN LET cs == SelectSeq(cliente, LAMBDA c : c.id_cliente = sow[i].id_cliente)
             IN  [a \in DOMAIN cs |->
                    [FECHA |-> sow[i].fecha_periodo,
                     COD_CLIENTE |-> cs[a].cod_cliente,
                     POTENCIAL_GRUPO |-> sow[i].potencial_grupo,
                     NICOVITA |-> sow[i].nicovita,
                     SOW_MAX_ALCANZABLE |-> sow[i].sow_max_alcanzable]]
        ELSE <<>>])

\* A groupby that sums every metric.
SowAggSum(metric, xs) == AggSum(xs)

\* The aggregation the groupby gives each metric.
SowAgg(metric, xs) == IF metric = "POTENCIAL_GRUPO" THEN AggSum(xs) ELSE AggMean(xs)

\* groupby([FECHA, COD_CLIENTE]).agg(...) then pivot_table(index=FECHA,
\* columns=COD_CLIENTE, aggfunc="first").fillna(0): one cell per date, metric
\* and client code.
SowCell(data, d, metric, cod) ==
    LET hit == SelectSeq(data, LAMBDA r : r.FECHA = d /\ r.COD_CLIENTE = cod)
    IN  IF hit = <<>> THEN Zero
        ELSE SowAgg(metric, [i \in DOMAIN hit |-> Q(hit[i][metric])])

\* [ok, df]: ok is FALSE when the function raises.
get_sow_for_prediction(fecha_desde, fecha_hasta) ==
    LET data == data_sow(fecha_desde, fecha_hasta)
        fechas == SortedSeq({r.FECHA : r \in Range(data)})
        cods == SortedSeq({r.COD_CLIENTE : r \in Range(data)})
        pairs == Flatten([k \in DOMAIN columnas_sow |->
                    [j \in DOMAIN cods |-> <<columnas_sow[k], cods[j]>>]])
        names == [i \in DOMAIN pairs |-> Col(pairs[i][1], "", LastChar(pairs[i][2]))]
        At(c) == CHOOSE i \in DOMAIN names : names[i] = c
        pivot == [cols |-> names,
                  rows |-> [i \in DOMAIN fechas |->
                      [FECHA |-> fechas[i],
                       v |-> [c \in Range(names) |->
                                SowCell(data, fechas[i], pairs[At(c)][1],
                                        pairs[At(c)][2])]]]]
        df_resultado ==
            FillNaFrame(ConcatEsperado(columnas_esperadas_sow,
                                       Reindex(pivot, columnas_esperadas_sow)))
    IN  IF ~NoDuplicates(names)
        THEN [ok |-> FALSE, df |-> EmptyFrame]   \* reindex on duplicate labels
        ELSE [ok |-> TRUE,
              df |-> [cols |-> df_resultado.cols,
                      rows |-> [i \in DOMAIN df_resultado.rows |->
                                  [MES |-> MonthOf(df_resultado.rows[i].FECHA),
                                   v |-> df_resultado.rows[i].v]]]]

-----------------------------------------------------------------------------
(* queries.py: get_precios_camaron_for_prediction *)

brackets == <<"30-40 (29 g)", "40-50 (23 g)", "50-60 (18 g)",
              "60-70 (15 g)", "70-80 (13 g)", "80-100 (11 g)">>

columnas_precios == [k \in DOMAIN brackets |-> Col(brackets[k], "", 0)]

TonFactor == 2000

\* The rows ORDER BY fecha DESC LIMIT 1 may return among those dated at or
\* before the window start: any one of the latest date; 0 when there is none.
AnchorChoices(fecha_desde) ==
    LET cand == {i \in DOMAIN precio_camaron : precio_camaron[i].fecha <= fecha_desde}
    IN  IF cand = {} THEN {0}
        ELSE {i \in cand : \A j \in cand :
                 precio_camaron[j].fecha <= precio_camaron[i].fecha}

\* The UNION ALL of the anchor row and the rows of the window, in the order
\* of the table.
data_precios_camaron(fecha_desde, fecha_hasta, anchor) ==
    (IF anchor = 0 THEN <<>> ELSE <<precio_camaron[anchor]>>)
    \o SelectSeq(precio_camaron,
              LAMBDA r : fecha_desde <= r.fecha /\ r.fecha <= fecha_hasta)

IsSortedByFecha(s) == \A i \in 1..(Len(s) - 1) : s[i].fecha <= s[i + 1].fecha

\* A merge that takes the first right row dated at or after each date.
MergeAsofForward(dates, right, cols) ==
    [cols |-> cols,
     rows |-> [i \in DOMAIN dates |->
        LET at == {j \in DOMAIN right.rows : right.rows[j].FECHA >= dates[i]}
            first == CHOOSE j \in at : \A k \in at : j <= k
        IN  [FECHA |-> dates[i],
             v |-> [c \in Range(cols) |->
                      IF at = {} THEN NaN ELSE right.rows[first].v[c]]]]]

\* pd.merge_asof(left dates, right, on=FECHA, direction="backward"): each date
\* takes the last right row dated at or before it, NaN when there is none.
MergeAsofBackward(dates, right, cols) ==
    [cols |-> cols,
     rows |-> [i \in DOMAIN dates |->
        LET at == {j \in DOMAIN right.rows : right.rows[j].FECHA <= dates[i]}
            last == CHOOSE j \in at : \A k \in at : k <= j
        IN  [FECHA |-> dates[i],
             v |-> [c \in Range(cols) |->
                      IF at = {} THEN NaN ELSE right.rows[last].v[c]]]]]

\* DataFrame.ffill(): a NaN cell takes the nearest value above it.
FFill(df) ==
    LET RECURSIVE Above(_, _)
        Above(i, c) == IF i = 0 THEN NaN
                       ELSE IF ~IsNaN(df.rows[i].v[c]) THEN df.rows[i].v[c]
                       ELSE Above(i - 1, c)
    IN  [df EXCEPT !.rows = [i \in DOMAIN df.rows |->
            [df.rows[i] EXCEPT !.v = [c \in DOMAIN @ |-> Above(i, c)]]]]

get_precios_camaron_for_prediction(fecha_desde, fecha_hasta, anchor) ==
    LET data == data_precios_camaron(fecha_desde, fecha_hasta, anchor)
        right == [cols |-> columnas_precios,
                  rows |-> [i \in DOMAIN data |->
                     [FECHA |-> data[i].fecha,
                      v |-> [c \in Range(columnas_precios) |->
                               QMul(Q(data[i].precio[c.fam]), Q(TonFactor))]]]]
        date_range == [i \in 1..(fecha_hasta - fecha_desde + 1) |-> fecha_desde + i - 1]
    IN  IF ~IsSortedByFecha(data)
        THEN [ok |-> FALSE, df |-> EmptyFrame]   \* merge_asof: right keys must be sorted
        ELSE [ok |-> TRUE,
              df |-> FFill(MergeAsofBackward(date_range, right, columnas_precios))]

-----------------------------------------------------------------------------
(* queries.py: get_exportaciones_for_prediction, get_materia_prima_for_prediction *)

columnas_exportaciones == <<Col("TOTAL_LB", "", 0), Col("TOTAL_FOB", "", 0)>>

get_exportaciones_for_prediction(fecha_desde, fecha_hasta) ==
    LET data == SelectSeq(exportacion,
                       LAMBDA r : fecha_desde <= r.fecha /\ r.fecha <= fecha_hasta)
    IN  [cols |-> columnas_exportaciones,
         rows |-> [i \in DOMAIN data |->
            [FECHA |-> data[i].fecha,
             v |-> [c \in Range(columnas_exportaciones) |->
                      IF c.fam = "TOTAL_LB"
                      THEN QDiv(Q(data[i].total_lb), Q(TonFactor))
                      ELSE QMul(Q(data[i].total_fob), Q(TonFactor))]]]]

materias == <<"LECITINA", "SOYA", "TRIGO">>

columnas_mp ==
    Flatten([k \in DOMAIN materias |->
               <<Col("TOTAL_USD", materias[k], 0), Col("LIBRAS_NETO", materias[k], 0)>>])

get_materia_prima_for_prediction(fecha_desde, fecha_hasta) ==
    LET data == SelectSeq(materia_prima,
                       LAMBDA r : fecha_desde <= r.fecha /\ r.fecha <= fecha_hasta)
    IN  [cols |-> columnas_mp,
         rows |-> [i \in DOMAIN data |->
            [FECHA |-> data[i].fecha,
             v |-> [c \in Range(columnas_mp) |->
                      IF c.fam = "LIBRAS_NETO"
                      THEN QDiv(Q(data[i].libras_neto[c.lin]), Q(TonFactor))
                      ELSE QMul(Q(data[i].total_usd[c.lin]), Q(TonFactor))]]]]

-----------------------------------------------------------------------------
(* queries.py: get_prediction_data *)

\* pd.merge(left, right, on=key, how="left"): every left row once per right
\* row of the same key, in the order of left; once with NaN when none has it.
MergeLeft(left, right, on) ==
    LET lc == Range(left.cols)
        all == lc \cup Range(right.cols)
        Join(l, r) == [c \in all |-> IF c \in lc THEN l.v[c] ELSE r.v[c]]
        Alone(l) == [c \in all |-> IF c \in lc THEN l.v[c] ELSE NaN]
    IN  [cols |-> left.cols \o right.cols,
         rows |-> Flatten([i \in DOMAIN left.rows |->
            LET l == left.rows[i]
                m == SelectSeq(right.rows, LAMBDA r : r[on] = l[on])
            IN  IF m = <<>> THEN <<[l EXCEPT !.v = Alone(l)]>>
                ELSE [j \in DOMAIN m |-> [l EXCEPT !.v = Join(l, m[j])]]])]

\* FECHA as the text strftime gives it.
WithTextDates(df) ==
    [df EXCEPT !.rows = [i \in DOMAIN df.rows |->
        [FECHA |-> Strftime(df.rows[i].FECHA), v |-> df.rows[i].v]]]

LookbackWeeks == 4
DaysPerWeek == 7

\* A window that runs through the target date.
LookbackWindowThrough(d) ==
    [fecha_desde |-> d - LookbackWeeks * DaysPerWeek, fecha_hasta |-> d]

\* fecha_desde = date - timedelta(weeks=4), fecha_hasta = date - timedelta(days=1).
LookbackWindow(d) ==
    [fecha_desde |-> d - LookbackWeeks * DaysPerWeek, fecha_hasta |-> d - 1]

\* The five reads: [ventas, sow, precios, exportaciones, mp].
PredictionParts(d, anchor) ==
    LET fecha_desde == LookbackWindow(d).fecha_desde
        fecha_hasta == LookbackWindow(d).fecha_hasta
    IN  [mp |-> get_materia_prima_for_prediction(fecha_desde, fecha_hasta),
         sow |-> get_sow_for_prediction(fecha_desde, fecha_hasta),
         precios |-> get_precios_camaron_for_prediction(fecha_desde, fecha_hasta, anchor),
         exportaciones |-> get_exportaciones_for_prediction(fecha_desde, fecha_hasta),
         ventas |-> get_ventas_for_prediction(fecha_desde, fecha_hasta)]

MergeParts(p) ==
    LET merge_ventas_sow ==
            WithTextDates(MergeLeft(p.ventas, p.sow.df, "MES"))
        with_exp == MergeLeft(merge_ventas_sow, WithTextDates(p.exportaciones), "FECHA")
        with_mp == MergeLeft(with_exp, WithTextDates(p.mp), "FECHA")
        merged_data == MergeLeft(with_mp, WithTextDates(p.precios.df), "FECHA")
    IN  FillNaFrame(merged_data)

\* A get_prediction_data that merges whatever the reads have built.
get_prediction_data_unguarded(p) == [data |-> MergeParts(p), msg |-> "", status |-> 200]

\* [data, msg, status]
get_prediction_data(p) ==
    IF p.sow.ok /\ p.precios.ok
    THEN [data |-> MergeParts(p), msg |-> "", status |-> 200]
    ELSE [data |-> EmptyFrame, msg |-> "Something went wrong", status |-> 500]

-----------------------------------------------------------------------------
(* pages/1_Prediction.py: main, the page script of one prediction request *)

\* get_min_max_date: MIN and MAX of venta.fecha_emision
MinFecha == CHOOSE d \in {r.fecha_emision : r \in Range(venta)} :
                \A r \in Range(venta) : d <= r.fecha_emision
MaxFecha == CHOOSE d \in {r.fecha_emision : r \in Range(venta)} :
                \A r \in Range(venta) : r.fecha_emision <= d

\* The dates st.date_input accepts: min_date + 4 weeks .. max_date.
SelectableDates == (MinFecha + LookbackWeeks * DaysPerWeek)..MaxFecha

None == [none |-> TRUE]

\* The form is submitted with a date; get_prediction_data reads the store.
GetPredictionData ==
    /\ pc = "idle"
    /\ venta # <<>>
    /\ \E d \in SelectableDates :
         \E anchor \in AnchorChoices(d - LookbackWeeks * DaysPerWeek) :
            \E got \in {IF Entries("get_prediction_data", d) # {}
                         THEN Stored("get_prediction_data", d)
                         ELSE LET p == PredictionParts(d, anchor)
                              IN  [parts |-> p, result |-> get_prediction_data(p)]} :
                /\ date' = d
                /\ parts' = got.parts
                /\ prediction_input' = got.result
                /\ cache' = Store(cache, "get_prediction_data", d, got)
    /\ pc' = "fetched"
    /\ UNCHANGED <<store, predicted, model_prediction, display, excel, upload, uploading, answered>>

-----------------------------------------------------------------------------
(* pages/1_Prediction.py: predict *)

n_lags == 4

Agregacion(col) == IF col \in columns_cfg.columns_promedio THEN "mean" ELSE "sum"

Agg(how, xs) == IF how = "mean" THEN AggMean(xs) ELSE AggSum(xs)

\* result[0][cols] with a DatetimeIndex, then resample("W").agg(how): one row
\* per week ending on a Sunday, from the week of the first date of the frame to
\* the week of its last date, the weeks without a row included.
Resample(df, cols, how) ==
    LET fecha == [k \in DOMAIN df.rows |-> ToDatetime(df.rows[k].FECHA)]
        fechas == Range(fecha)
        first == CHOOSE d \in fechas : \A e \in fechas : d <= e
        last == CHOOSE d \in fechas : \A e \in fechas : e <= d
        n == (WeekEnd(last) - WeekEnd(first)) \div DaysPerWeek + 1
        bin == [i \in 1..n |-> WeekEnd(first) + (i - 1) * DaysPerWeek]
        in == [i \in 1..n |->
                 SortedSeq({k \in DOMAIN df.rows : WeekEnd(fecha[k]) = bin[i]})]
    IN  IF fechas = {} THEN <<>>
        ELSE [i \in 1..n |->
                [FECHA |-> bin[i],
                 v |-> [c \in Range(cols) |->
                          Agg(how[c], [k \in DOMAIN in[i] |-> df.rows[in[i][k]].v[c]])]]]

\* The flattened row with the place of each week among the kept ones as its
\* token.
FlattenWeeksOffset(weeks, cols) ==
    LET n == Len(cols)
    IN  [names |-> [m \in 1..(Len(weeks) * n) |->
                      [W |-> (m - 1) \div n + 1, col |-> cols[((m - 1) % n) + 1]]],
         values |-> [m \in 1..(Len(weeks) * n) |->
                       weeks[(m - 1) \div n + 1].v[cols[((m - 1) % n) + 1]]]]

\* pd.concat of the rows into one row, and its new column names
\* f"W{week}_{col}": [names, values].
FlattenWeeks(weeks, cols) ==
    LET n == Len(cols)
        week == [i \in DOMAIN weeks |-> IsoWeek(weeks[i].FECHA)]
        Wk(m) == (m - 1) \div n + 1
        Cl(m) == ((m - 1) % n) + 1
    IN  [names |-> [m \in 1..(Len(weeks) * n) |-> [W |-> week[Wk(m)], col |-> cols[Cl(m)]]],
         values |-> [m \in 1..(Len(weeks) * n) |-> weeks[Wk(m)].v[cols[Cl(m)]]]]

\* nanmin / nanmax of a column of samples
RECURSIVE NanMin(_)
NanMin(xs) ==
    IF xs = <<>> THEN NaN
    ELSE LET m == NanMin(Tail(xs))
         IN  IF IsNaN(Head(xs)) THEN m
             ELSE IF IsNaN(m) \/ QLeq(Head(xs), m) THEN Head(xs) ELSE m

RECURSIVE NanMax(_)
NanMax(xs) ==
    IF xs = <<>> THEN NaN
    ELSE LET m == NanMax(Tail(xs))
         IN  IF IsNaN(Head(xs)) THEN m
             ELSE IF IsNaN(m) \/ QLeq(m, Head(xs)) THEN Head(xs) ELSE m

\* sklearn's _handle_zeros_in_scale: a zero range scales by 1.
HandleZeros(x) == IF x = Zero THEN One ELSE x

\* MinMaxScaler().fit(samples): per feature, scale_ = 1 / range and
\* min_ = 0 - data_min * scale_.
MinMaxFit(samples) ==
    LET n == Len(samples[1])
        column(j) == [i \in DOMAIN samples |-> samples[i][j]]
        scale == [j \in 1..n |->
                    QDiv(One, HandleZeros(QSub(NanMax(column(j)), NanMin(column(j)))))]
    IN  [scale_ |-> scale,
         min_ |-> [j \in 1..n |-> QSub(Zero, QMul(NanMin(column(j)), scale[j]))]]

MinMaxTransform(s, x) == [j \in DOMAIN x |-> QAdd(QMul(x[j], s.scale_[j]), s.min_[j])]

\* An inverse that divides by the scale and leaves out the shift.
MinMaxInverseUnshifted(s, x) == [j \in DOMAIN x |-> QDiv(x[j], s.scale_[j])]

MinMaxInverse(s, x) == [j \in DOMAIN x |-> QDiv(QSub(x[j], s.min_[j]), s.scale_[j])]

\* X_scaled.reshape((1, n_lags, n_features))
Reshape(x, n_features) ==
    [lag \in 1..n_lags |-> [f \in 1..n_features |-> x[(lag - 1) * n_features + f]]]

\* What predict computes up to the call of the model:
\* [raised, input_data, input_data_flatten, output_data_flatten, X_reshaped]
PredictInputs(result) ==
    LET order == columns_cfg.columns_order
        out == columns_cfg.columns_out
        have == Range(result.data.cols)
        input_data == TailN(Resample(result.data, order, [c \in Range(order) |-> Agregacion(c)]), n_lags)
        output_data == TailN(Resample(result.data, out, [c \in Range(out) |-> "sum"]), n_lags)
        input_flat == FlattenWeeks(input_data, order)
        output_flat == FlattenWeeks(output_data, out)
        scaler == MinMaxFit(<<input_flat.values>>)
        X_scaled == MinMaxTransform(scaler, input_flat.values)
        n_features == Len(X_scaled) \div n_lags
        none == [raised |-> TRUE, input_data |-> <<>>, input_flat |-> FlattenWeeks(<<>>, order),
                 output_flat |-> FlattenWeeks(<<>>, out), X_reshaped |-> <<>>]
    IN  IF result.status # 200 THEN none                     \* str indexed by a list
        ELSE IF ~(Range(order) \subseteq have /\ Range(out) \subseteq have)
        THEN none                                           \* KeyError
        ELSE IF input_data = <<>> THEN none                 \* No objects to concatenate
        ELSE IF n_features * n_lags # Len(X_scaled)
        THEN [none EXCEPT !.input_data = input_data, !.input_flat = input_flat,
                          !.output_flat = output_flat]       \* cannot reshape
        ELSE [raised |-> FALSE, input_data |-> input_data, input_flat |-> input_flat,
              output_flat |-> output_flat, X_reshaped |-> Reshape(X_scaled, n_features)]

MaxSeeds == 2

\* The tensors model.predict may return, (1, 4, n_features_out): the model is
\* a black box, its outputs are drawn from a family indexed by a seed.
ModelOutputs ==
    {[w \in 1..n_lags |-> [j \in 1..model.n_features_out |-> QNorm((s + w * j) % 4, 4)]]
       : s \in 1..MaxSeeds}

\* An inverse scaling that takes the data range of every output to be [0, 1]:
\* the prediction is the output of the model as it is.
InverseScaleUnit(output_flat, raw) ==
    [raised |-> Len(Flatten(raw)) # Len(output_flat.values), prediction |-> Flatten(raw)]

\* The inverse scaling of the prediction with the scaler fitted on the
\* flattened output row: [raised, prediction].
InverseScale(output_flat, raw) ==
    LET scaler_out == MinMaxFit(<<output_flat.values>>)
        prediction_reshaped == Flatten(raw)
    IN  IF Len(prediction_reshaped) # Len(output_flat.values)
        THEN [raised |-> TRUE, prediction |-> <<>>]          \* operands could not be broadcast
        ELSE [raised |-> FALSE, prediction |-> MinMaxInverse(scaler_out, prediction_reshaped)]

\* predict(prediction_input)
\* predict as it runs when the cache has no entry for its argument; a call
\* that returns is stored, a call that raises is not.
PredictMiss ==
    \E x \in {PredictInputs(prediction_input)}, raw \in ModelOutputs :
         \E inv \in {InverseScale(x.output_flat, raw)} :
            \E accepted \in {~x.raised /\ Len(x.X_reshaped[1]) = model.n_features_in} :
               /\ predicted' = [raised |-> x.raised,
                                input_data |-> x.input_data,
                                input_flat |-> x.input_flat,
                                output_flat |-> x.output_flat,
                                X_reshaped |-> x.X_reshaped,
                                model_called |-> ~x.raised,
                                raw |-> IF accepted THEN raw ELSE <<>>]
               /\ IF accepted /\ ~inv.raised
                  THEN /\ model_prediction' = inv.prediction
                       /\ pc' = "predicted"
                       /\ cache' = Store(cache, "predict", prediction_input,
                                         [predicted |-> predicted',
                                          prediction |-> inv.prediction])
                  ELSE /\ model_prediction' = None
                       /\ pc' = "failed"
                       /\ cache' = cache

\* predict answered from the cache.
PredictHit ==
    \E got \in {Stored("predict", prediction_input)} :
        /\ predicted' = got.predicted
        /\ model_prediction' = got.prediction
        /\ pc' = "predicted"
        /\ cache' = cache

Predict ==
    /\ pc = "fetched"
    /\ IF Entries("predict", prediction_input) # {} THEN PredictHit ELSE PredictMiss
    /\ UNCHANGED <<store, date, prediction_input, parts, display, excel, upload, uploading, answered>>

-----------------------------------------------------------------------------
(* pages/1_Prediction.py: process_display_data and the table builders *)

SegmentLen == 70
NumWeeks == 4

\* The client names, last row first.
get_clients_reversed == [i \in DOMAIN cliente |-> cliente[Len(cliente) + 1 - i].des_cliente]

\* queries.py get_clients: row[2] of every row of SELECT * FROM cliente
get_clients == [i \in DOMAIN cliente |-> cliente[i].des_cliente]

\* date, date + 1 week, date + 2 weeks, date + 3 weeks
ForecastDates(d) == [k \in 1..NumWeeks |-> d + (k - 1) * DaysPerWeek]

\* pd.DataFrame(model_prediction[0][a:b]).T with columns = columns_out:
\* [raised, cols, v]; the assignment raises on a length mismatch.
WeekFrame(prediction, k) ==
    LET seg == Slice(prediction, (k - 1) * SegmentLen, k * SegmentLen)
        out == columns_cfg.columns_out
    IN  IF Len(seg) # Len(out)
        THEN [raised |-> TRUE, cols |-> out, values |-> seg]
        ELSE [raised |-> FALSE, cols |-> out, values |-> seg]

\* A summary whose every row carries the total of the first week.
build_weekly_summary_first(weeks, dates) ==
    [k \in DOMAIN weeks |->
       [Semana |-> k, Fecha |-> dates[k], Total |-> AggSum(weeks[1].values)]]

\* build_weekly_summary: rows [Semana, Fecha, Total], Total the sum of the row
\* of the week.
build_weekly_summary(weeks, dates) ==
    [k \in DOMAIN weeks |->
       [Semana |-> k, Fecha |-> dates[k], Total |-> AggSum(weeks[k].values)]]

\* build_week_dataframes: melt, then pivot on the trailing number of the column
\* name (CLIENTE) and the rest of it (PRODUCTO_ETAPA), then the client numbers
\* replaced by the names of get_clients, by position.  [etapas, rows], a row
\* [CLIENTE, v]; CLIENTE is [nombre, numero], numero 0 once replaced.
build_week_dataframes(week) ==
    LET clientes == get_clients
        slots == SortedSeq({week.cols[i].slot : i \in DOMAIN week.cols})
        etapas == Unique([i \in DOMAIN week.cols |-> <<week.cols[i].fam, week.cols[i].lin>>])
        First(n, e) ==
            LET at == {i \in DOMAIN week.cols :
                          week.cols[i].slot = n /\ <<week.cols[i].fam, week.cols[i].lin>> = e}
            IN  IF at = {} THEN NaN
                ELSE week.values[CHOOSE i \in at : \A j \in at : i <= j]
    IN  [etapas |-> etapas,
         rows |-> [r \in DOMAIN slots |->
            [CLIENTE |-> IF slots[r] \in DOMAIN clientes
                         THEN [nombre |-> clientes[slots[r]], numero |-> 0]
                         ELSE [nombre |-> "", numero |-> slots[r]],
             v |-> [e \in Range(etapas) |-> First(slots[r], e)]]]]

\* build_line_group_dataframes: per week, the sum over the columns whose name
\* contains line_group, of the first row of the week's table.
build_line_group_dataframes(pivots, dates, line_group) ==
    [k \in DOMAIN pivots |->
       LET group_columns == SelectSeq(pivots[k].etapas, LAMBDA e : e[2] = line_group)
       IN  [Fecha |-> dates[k],
            Total |-> AggSum([i \in DOMAIN group_columns |->
                                pivots[k].rows[1].v[group_columns[i]]]),
            Semana |-> k]]

process_display_data(prediction, d) ==
    LET dates == ForecastDates(d)
        weeks == [k \in 1..NumWeeks |-> WeekFrame(prediction, k)]
        pivots == [k \in 1..NumWeeks |->
                     IF Entries("build_week_dataframes", weeks[k]) # {}
                     THEN Stored("build_week_dataframes", weeks[k])
                     ELSE build_week_dataframes(weeks[k])]
    IN  IF \E k \in 1..NumWeeks : weeks[k].raised
        THEN [raised |-> TRUE, weeks |-> weeks, weekly_summary |-> <<>>,
              pivots |-> <<>>, seeding_weekly_df |-> <<>>, voluma_weekly_df |-> <<>>]
        ELSE [raised |-> FALSE, weeks |-> weeks,
              weekly_summary |-> build_weekly_summary(weeks, dates),
              pivots |-> pivots,
              seeding_weekly_df |-> build_line_group_dataframes(pivots, dates, "SEEDING"),
              voluma_weekly_df |-> build_line_group_dataframes(pivots, dates, "VOLUMA")]

\* "Semana N (YYYY-MM-DD)": the week number and the text of the week's date.
SemanaLabel(k, d) == [Semana |-> k, Fecha |-> Strftime(d + (k - 1) * DaysPerWeek)]

\* df.insert(0, "Semana", label): the label in front of every row.
InsertSemana(df, label) ==
    [i \in DOMAIN df.rows |-> [Semana |-> label, CLIENTE |-> df.rows[i].CLIENTE,
                               v |-> df.rows[i].v]]

\* Start rows that leave no room for the header and the rows of the first table.
StartRowTight(dfs, k) == IF k = 1 THEN 0 ELSE (k - 1) * Len(dfs[1].rows)

\* The startrow of the k-th to_excel: 0, then len(df1) + 2, then the
\* previous one plus len(df) + 1.
RECURSIVE StartRow(_, _)
StartRow(dfs, k) ==
    IF k = 1 THEN 0
    ELSE IF k = 2 THEN Len(dfs[1].rows) + 2
    ELSE StartRow(dfs, k - 1) + Len(dfs[k - 1].rows) + 1

\* The workbook: [sheets, rows], rows the written rows of sheet "Semanas" by
\* row number (a later write replaces an earlier one).  The first table is
\* written with its header row, the others without.
write_excel(dfs, d) ==
    LET blocks == [k \in 1..NumWeeks |-> InsertSemana(dfs[k], SemanaLabel(k, d))]
        first(k) == StartRow(dfs, k) + (IF k = 1 THEN 1 ELSE 0)
        covers(k, r) == first(k) <= r /\ r < first(k) + Len(blocks[k])
        written == {0} \cup {r \in 0..(first(NumWeeks) + Len(blocks[NumWeeks])) :
                                \E k \in 1..NumWeeks : covers(k, r)}
    IN  [sheets |-> <<"Semanas">>,
         rows |-> [r \in written |->
            IF \E k \in 1..NumWeeks : covers(k, r)
            THEN LET k == CHOOSE x \in 1..NumWeeks :
                             covers(x, r) /\ \A y \in 1..NumWeeks : covers(y, r) => y <= x
                 IN  blocks[k][r - first(k) + 1]
            ELSE [header |-> <<"Semana", "CLIENTE">> \o dfs[1].etapas]]]

\* main, after predict: the week tables, then the workbook of the download.
ProcessDisplayData ==
    /\ pc = "predicted"
    /\ \E shown \in {process_display_data(model_prediction, date)} :
          /\ display' = shown
          /\ excel' = IF shown.raised THEN None ELSE write_excel(shown.pivots, date)
          /\ pc' = IF shown.raised THEN "failed" ELSE "displayed"
          /\ cache' = IF shown.raised THEN cache
                      ELSE [cache EXCEPT !.build_week_dataframes =
                               @ \cup {[key |-> shown.weeks[k], value |-> shown.pivots[k]]
                                          : k \in 1..NumWeeks}]
    /\ UNCHANGED <<store, date, prediction_input, parts, predicted, model_prediction, upload,
                   uploading, answered>>

Next == GetPredictionData \/ Predict \/ ProcessDisplayData

\* The script runs again: st.cache_data.clear(), then main from its top.
Rerun ==
    /\ pc \in {"displayed", "failed"}
    /\ cache' = st_cache_data_clear(cache)
    /\ answered' = answered \cup {[date |-> date, prediction_input |-> prediction_input]}
    /\ pc' = "idle"
    /\ date' = None
    /\ prediction_input' = None
    /\ parts' = None
    /\ predicted' = None
    /\ model_prediction' = None
    /\ display' = None
    /\ excel' = None
    /\ UNCHANGED <<store, upload, uploading>>

-----------------------------------------------------------------------------
(* queries.py: the uploads of pages/2_File_Upload.py *)

\* date.replace(day=1)
FirstDayOfMonth(d) == ToDatetime(<<YearOf(d), MonthOf(d), 1>>)

\* The dates of the records of a table, in its date column.
TableDates(table) ==
    CASE table = "venta" -> [i \in DOMAIN venta |-> venta[i].fecha_emision]
      [] table = "sow" -> [i \in DOMAIN sow |-> sow[i].fecha_periodo]
      [] table = "exportacion" -> [i \in DOMAIN exportacion |-> exportacion[i].fecha]
      [] table = "precio_camaron" -> [i \in DOMAIN precio_camaron |-> precio_camaron[i].fecha]
      [] table = "materia_prima" -> [i \in DOMAIN materia_prima |-> materia_prima[i].fecha]

\* COUNT(*) > 0 of the records from the first day of the previous month up to
\* the first day of the month of d: of venta, of sow, and of exportacion for
\* each of the three other tables.
check_previous_month_data(d, table) ==
    LET first_day_current_month == FirstDayOfMonth(d)
        first_day_previous_month == FirstDayOfMonth(first_day_current_month - 1)
        queried == IF table \in {"venta", "sow"} THEN table ELSE "exportacion"
    IN  \E f \in Range(TableDates(queried)) :
            first_day_previous_month <= f /\ f < first_day_current_month

\* COUNT(*) > 0 of the records of the table in the month of d.
check_already_uploaded_data(d, table) ==
    LET first_day_month == FirstDayOfMonth(d)
        first_day_next_month ==
            IF MonthOf(first_day_month) < 12
            THEN ToDatetime(<<YearOf(first_day_month), MonthOf(first_day_month) + 1, 1>>)
            ELSE ToDatetime(<<YearOf(first_day_month) + 1, 1, 1>>)
        last_day_month == first_day_next_month - 1
    IN  \E f \in Range(TableDates(table)) : first_day_month <= f /\ f <= last_day_month

\* The two checks every upload makes on the rows of its file before it
\* inserts: the response that ends the upload, or None.
UploadChecks(archivo, table) ==
    IF \E i \in DOMAIN archivo : check_already_uploaded_data(archivo[i].FEC_EMISION, table)
    THEN [msg |-> "Ya existe data para el mes que se desea cargar", status |-> 400]
    ELSE IF ~ \A i \in DOMAIN archivo : check_previous_month_data(archivo[i].FEC_EMISION, table)
    THEN [msg |-> "No existe data para el mes anterior", status |-> 400]
    ELSE None

Uploaded == [msg |-> "Data uploaded successfully", status |-> 200]
SomethingWentWrong == [msg |-> "Something went wrong", status |-> 500]

\* (SELECT id_cliente FROM cliente WHERE cod_cliente = cod)
IdCliente(cod) == (CHOOSE c \in Range(cliente) : c.cod_cliente = cod).id_cliente

\* (SELECT id_producto FROM producto WHERE cod_sku = sku)
IdProducto(sku) == (CHOOSE q \in Range(producto) : q.cod_sku = sku).id_producto

\* What an upload returns, with the records it has committed.
Returned(response, rows) == [response |-> response, rows |-> rows, raised |-> FALSE]

\* read_excel raised before cursor was assigned: the except clause calls
\* cursor.execute("ROLLBACK") on the unbound local and raises
\* UnboundLocalError to the caller of the upload.
UnboundCursor == [response |-> None, rows |-> <<>>, raised |-> TRUE]

\* cursor.execute("COMMIT") with the inserts of the upload pending.
COMMIT(pending) == pending

\* cursor.execute("ROLLBACK") with the inserts of the upload pending.
ROLLBACK(pending) == <<>>

\* The insert loop over the records to add, of which the database rejects
\* the one at place rejected (0: none): COMMIT after the last insert, or the
\* except clause when an insert raises.
InsertAll(records, rejected) ==
    IF rejected = 0 THEN Returned(Uploaded, COMMIT(records))
    ELSE Returned(SomethingWentWrong, ROLLBACK(SubSeq(records, 1, rejected - 1)))

\* The records the INSERT INTO venta statements of a file add.
insert_venta(archivo) ==
    [i \in DOMAIN archivo |->
        [id_cliente |-> IdCliente(archivo[i].COD_CLIENTE),
         id_producto |-> IdProducto(archivo[i].COD_SKU),
         fecha_emision |-> archivo[i].FEC_EMISION,
         toneladas |-> archivo[i].TON]]

\* upload_ventas_data of the uploaded file data = [workbook, rows]: workbook
\* tells whether read_excel can read it, rows are its rows.
upload_ventas_data(data, rejected) ==
    IF ~data.workbook THEN UnboundCursor
    ELSE LET checks == UploadChecks(data.rows, "venta")
         IN  IF checks # None THEN Returned(checks, <<>>)
             ELSE InsertAll(insert_venta(data.rows), rejected)

\* The records the INSERT INTO sow statements of a file add.
insert_sow(archivo) ==
    [i \in DOMAIN archivo |->
        [id_cliente |-> IdCliente(archivo[i].COD_CLIENTE),
         fecha_periodo |-> archivo[i].FEC_EMISION,
         potencial_grupo |-> archivo[i].POTENCIAL_GRUPO,
         nicovita |-> archivo[i].NICOVITA,
         sow_max_alcanzable |-> archivo[i].SOW_MAX_ALCANZABLE]]

\* upload_sow_data: the only upload that assigns cursor before it reads the file.
upload_sow_data(data, rejected) ==
    IF ~data.workbook THEN Returned(SomethingWentWrong, ROLLBACK(<<>>))
    ELSE LET checks == UploadChecks(data.rows, "sow")
         IN  IF checks # None THEN Returned(checks, <<>>)
             ELSE InsertAll(insert_sow(data.rows), rejected)

\* The records the INSERT INTO materia_prima statements of a file add.
insert_materia_prima(archivo) ==
    [i \in DOMAIN archivo |->
        [fecha |-> archivo[i].Fecha,
         total_usd |-> archivo[i].total_usd,
         libras_neto |-> archivo[i].libras_neto]]

\* upload_materia_prima_data: the checks read FEC_EMISION, the insert Fecha.
upload_materia_prima_data(data, rejected) ==
    IF ~data.workbook THEN UnboundCursor
    ELSE LET checks == UploadChecks(data.rows, "materia_prima")
         IN  IF checks # None THEN Returned(checks, <<>>)
             ELSE InsertAll(insert_materia_prima(data.rows), rejected)

\* upload_precio_camaron_data and upload_exportaciones_data: after the checks
\* the insert loop runs over the uploaded file object, not over its rows.  What
\* is left of the stream once read_excel has read it is either nothing (no
\* insert, COMMIT, 200) or bytes, which row['Fecha'] cannot index (TypeError,
\* ROLLBACK, 500): the responses the upload may give; no record is inserted.
UploadOverFile(data, table) ==
    IF ~data.workbook THEN {UnboundCursor}
    ELSE LET checks == UploadChecks(data.rows, table)
         IN  IF checks # None THEN {Returned(checks, <<>>)}
             ELSE {Returned(Uploaded, COMMIT(<<>>)),
                   Returned(SomethingWentWrong, ROLLBACK(<<>>))}

upload_precio_camaron_data(data) == UploadOverFile(data, "precio_camaron")

upload_exportaciones_data(data) == UploadOverFile(data, "exportacion")

\* The dates of the rows of the files that are uploaded, in order.
FileDates == <<ToDatetime(<<2024, 2, 10>>), ToDatetime(<<2024, 3, 5>>)>>

\* The files made of the rows of a sequence: the empty workbook, the
\* workbooks of one row, the workbooks of two rows of different months in the
\* order of the sequence, and a file that is not a workbook.
FilesOf(rows) ==
    {[workbook |-> TRUE, rows |-> a] :
        a \in {<<>>} \cup {<<rows[i]>> : i \in DOMAIN rows}
                \cup {<<rows[p[1]], rows[p[2]]>> :
                        p \in {q \in (DOMAIN rows) \X (DOMAIN rows) : q[1] < q[2]}}}
       \cup {[workbook |-> FALSE, rows |-> <<>>]}

VentasFiles ==
    FilesOf([k \in DOMAIN FileDates |->
               [FEC_EMISION |-> FileDates[k], COD_CLIENTE |-> cliente[1].cod_cliente,
                COD_SKU |-> producto[1].cod_sku, TON |-> 3]])

SowFiles ==
    FilesOf([k \in DOMAIN FileDates |->
               [FEC_EMISION |-> FileDates[k], COD_CLIENTE |-> cliente[1].cod_cliente,
                POTENCIAL_GRUPO |-> 6, NICOVITA |-> 2, SOW_MAX_ALCANZABLE |-> 4]])

MateriaPrimaFiles ==
    FilesOf([k \in DOMAIN FileDates |->
               [FEC_EMISION |-> FileDates[k], Fecha |-> FileDates[k],
                total_usd |-> [m \in Range(materias) |-> 2],
                libras_neto |-> [m \in Range(materias) |-> 4000]]])

PrecioCamaronFiles ==
    FilesOf([k \in DOMAIN FileDates |->
               [FEC_EMISION |-> FileDates[k], Fecha |-> FileDates[k],
                precio |-> [b \in Range(brackets) |-> 5]]])

ExportacionesFiles ==
    FilesOf([k \in DOMAIN FileDates |->
               [FEC_EMISION |-> FileDates[k], Fecha |-> FileDates[k],
                total_lb |-> 2000, total_fob |-> 3]])

\* What the upload page holds after a submit: the table chosen, the file (its
\* rows, whether it is a workbook), the insert the database rejected, and
\* what the upload function returned or that it raised.
Submitted(tabla, data, rejected, r) ==
    [tabla |-> tabla, archivo |-> data.rows, workbook |-> data.workbook,
     rejected |-> rejected, response |-> r.response, raised |-> r.raised]

\* The inserts of an upload the database may reject: any one of those the
\* upload gets to execute, or none.
Rejectable(data, table) ==
    IF data.workbook /\ UploadChecks(data.rows, table) = None
    THEN 0..Len(data.rows) ELSE {0}

\* The form of the upload page is submitted with a file for "Ventas".
UploadVentas ==
    /\ pc = "idle"
    /\ \E data \in VentasFiles : \E rejected \in Rejectable(data, "venta") :
       \E r \in {upload_ventas_data(data, rejected)} :
          /\ venta' = venta \o r.rows
          /\ upload' = Submitted("Ventas", data, rejected, r)
    /\ UNCHANGED <<cliente, producto, sow, precio_camaron, exportacion, materia_prima,
                   columns_cfg, model, request, uploading>>

UploadSow ==
    /\ pc = "idle"
    /\ \E data \in SowFiles : \E rejected \in Rejectable(data, "sow") :
       \E r \in {upload_sow_data(data, rejected)} :
          /\ sow' = sow \o r.rows
          /\ upload' = Submitted("Share of Wallet", data, rejected, r)
    /\ UNCHANGED <<cliente, producto, venta, precio_camaron, exportacion, materia_prima,
                   columns_cfg, model, request, uploading>>

UploadMateriaPrima ==
    /\ pc = "idle"
    /\ \E data \in MateriaPrimaFiles : \E rejected \in Rejectable(data, "materia_prima") :
       \E r \in {upload_materia_prima_data(data, rejected)} :
          /\ materia_prima' = materia_prima \o r.rows
          /\ upload' = Submitted("Materia Prima", data, rejected, r)
    /\ UNCHANGED <<cliente, producto, venta, sow, precio_camaron, exportacion,
                   columns_cfg, model, request, uploading>>

\* No INSERT of the file's rows is executed by the next two uploads, so the
\* database has none to reject.
UploadPrecioCamaron ==
    /\ pc = "idle"
    /\ \E data \in PrecioCamaronFiles : \E r \in upload_precio_camaron_data(data) :
          /\ precio_camaron' = precio_camaron \o r.rows
          /\ upload' = Submitted("Precio Camaron", data, 0, r)
    /\ UNCHANGED <<cliente, producto, venta, sow, exportacion, materia_prima,
                   columns_cfg, model, request, uploading>>

UploadExportaciones ==
    /\ pc = "idle"
    /\ \E data \in ExportacionesFiles : \E r \in upload_exportaciones_data(data) :
          /\ exportacion' = exportacion \o r.rows
          /\ upload' = Submitted("Exportaciones", data, 0, r)
    /\ UNCHANGED <<cliente, producto, venta, sow, precio_camaron, materia_prima,
                   columns_cfg, model, request, uploading>>

\* load_files: one submit of the upload page.
NextUpload ==
    UploadVentas \/ UploadSow \/ UploadMateriaPrima \/ UploadPrecioCamaron
       \/ UploadExportaciones

\* The sessions that have the upload page open, each on a connection of its
\* own (File_Upload.py connects at every run of the page script).
Sessions == {1, 2}

\* A session submits a sales file: upload_ventas_data up to its two checks,
\* which read what the other connections have committed.  A file that cannot
\* be read or a failed check ends the upload; after the checks the inserts of
\* the session are pending.
ChecksVentas(s) ==
    /\ uploading[s] = None
    /\ \E data \in VentasFiles :
          IF ~data.workbook \/ UploadChecks(data.rows, "venta") # None
          THEN /\ upload' = Submitted("Ventas", data, 0, upload_ventas_data(data, 0))
               /\ UNCHANGED uploading
          ELSE /\ uploading' = [uploading EXCEPT ![s] = [tabla |-> "Ventas", data |-> data]]
               /\ UNCHANGED upload
    /\ UNCHANGED <<store, request>>

\* The inserts of the session and its COMMIT, which shows them to the others,
\* or its ROLLBACK.
CommitVentas(s) ==
    /\ uploading[s] # None
    /\ uploading[s].tabla = "Ventas"
    /\ \E rejected \in 0..Len(uploading[s].data.rows) :
       \E r \in {InsertAll(insert_venta(uploading[s].data.rows), rejected)} :
          /\ venta' = venta \o r.rows
          /\ upload' = Submitted("Ventas", uploading[s].data, rejected, r)
    /\ uploading' = [uploading EXCEPT ![s] = None]
    /\ UNCHANGED <<cliente, producto, sow, precio_camaron, exportacion, materia_prima,
                   columns_cfg, model, request>>

\* The same two steps of upload_sow_data.
ChecksSow(s) ==
    /\ uploading[s] = None
    /\ \E data \in SowFiles :
          IF ~data.workbook \/ UploadChecks(data.rows, "sow") # None
          THEN /\ upload' = Submitted("Share of Wallet", data, 0, upload_sow_data(data, 0))
               /\ UNCHANGED uploading
          ELSE /\ uploading' = [uploading EXCEPT ![s] =
                                   [tabla |-> "Share of Wallet", data |-> data]]
               /\ UNCHANGED upload
    /\ UNCHANGED <<store, request>>

CommitSow(s) ==
    /\ uploading[s] # None
    /\ uploading[s].tabla = "Share of Wallet"
    /\ \E rejected \in 0..Len(uploading[s].data.rows) :
       \E r \in {InsertAll(insert_sow(uploading[s].data.rows), rejected)} :
          /\ sow' = sow \o r.rows
          /\ upload' = Submitted("Share of Wallet", uploading[s].data, rejected, r)
    /\ uploading' = [uploading EXCEPT ![s] = None]
    /\ UNCHANGED <<cliente, producto, venta, precio_camaron, exportacion, materia_prima,
                   columns_cfg, model, request>>

\* The submits of the sessions, interleaved at the statements that read and
\* write the store.
NextConcurrent ==
    \E s \in Sessions : ChecksVentas(s) \/ CommitVentas(s) \/ ChecksSow(s) \/ CommitSow(s)

\* The runs of the prediction page and the submits of the upload page of one
\* server process.
NextSession ==
    GetPredictionData \/ Predict \/ ProcessDisplayData \/ Rerun
       \/ UploadVentas \/ UploadSow \/ UploadMateriaPrima \/ UploadPrecioCamaron
       \/ UploadExportaciones

-----------------------------------------------------------------------------
(* queries.py get_historic and 0_Dashboard.py draw_results *)

\* The rows of a query in the order of the table venta, for the places of
\* the table that satisfy the WHERE clause.
Fetchall(places) ==
    LET at == SortedSeq(places)
    IN  [k \in DOMAIN at |->
           LET v == venta[at[k]]
               c == CHOOSE x \in Range(cliente) : x.id_cliente = v.id_cliente
               q == CHOOSE x \in Range(producto) : x.id_producto = v.id_producto
           IN  [Cliente |-> c.des_cliente, Familia |-> q.familia, Fecha |-> v.fecha_emision,
                Etapa |-> q.grupo_linea, Toneladas |-> v.toneladas]]

\* venta.fecha_emision BETWEEN the first and the last day of the month of period.
Between(period) ==
    LET start_date == period
        end_date == ToDatetime(<<YearOf(period), MonthOf(period),
                                 DaysInMonth(YearOf(period), MonthOf(period))>>)
    IN  {i \in DOMAIN venta : start_date <= venta[i].fecha_emision
                                 /\ venta[i].fecha_emision <= end_date}

\* The conditions get_historic joins with ' AND ' for the filters that are
\* given; a filter is the set of the options chosen, empty for None.
conditions(params) ==
    (IF params.stage # {} THEN <<"producto.grupo_linea">> ELSE <<>>)
       \o (IF params.client # {} THEN <<"cliente.des_cliente">> ELSE <<>>)

\* get_historic: (current, past, 200), or ("Something went wrong", 500).
\* The joined conditions follow the BETWEEN ... AND ... of each query after
\* a blank, with no AND before them: with a filter given the statement is
\* not SQL, cursor.execute raises and the except clause returns the pair.
get_historic(params) ==
    LET current_period == ToDatetime(<<params.year, params.month, 1>>)
        past_period == FirstDayOfMonth(current_period - 1)
    IN  IF conditions(params) # <<>>
        THEN <<"Something went wrong", 500>>
        ELSE <<Fetchall(Between(current_period)), Fetchall(Between(past_period)), 200>>

\* draw_results up to its two early returns: what it shows, or that it
\* raised.  response[2] is the third member of what get_historic returned.
draw_results(input_data) ==
    LET response == get_historic(input_data)
    IN  IF Len(response) < 3
        THEN [raised |-> TRUE, shown |-> "IndexError"]
        ELSE IF response[3] = 500
        THEN [raised |-> FALSE, shown |-> "Error al cargar los datos"]
        ELSE IF Len(response[1]) = 0
        THEN [raised |-> FALSE, shown |-> "No hay datos para mostrar"]
        ELSE [raised |-> FALSE, shown |-> "Resumen de ventas"]

-----------------------------------------------------------------------------
(* The stores the requests are checked on *)

\* 2024-03-04, a Monday: the target date of the scenario of the specification.
BaseDate == ToDatetime(<<2024, 3, 4>>)

Nombres == <<"A", "B", "C", "D", "E", "F", "G", "H", "I">>
CodOffsets == <<1, 2, 11, 3, 4, 5, 6, 7, 8>>
Familias == <<"BALANCEADO", "ADITIVO", "PREMEZCLA", "LARVA", "ENGORDE", "MADURACION",
              "INICIADOR">>

ClienteRow(i) == [id_cliente |-> i, cod_cliente |-> CodBase + CodOffsets[i],
                  des_cliente |-> Nombres[i]]

\* The product table of nf families: one product per family and line group.
Productos(nf) ==
    Flatten([f \in 1..nf |-> [j \in DOMAIN lineas |->
        [id_producto |-> (f - 1) * Len(lineas) + j,
         cod_sku |-> 500 + (f - 1) * Len(lineas) + j, familia |-> Familias[f],
         grupo_linea |-> lineas[j]]]])

VentaRow(c, p, d, t) == [id_cliente |-> c, id_producto |-> p, fecha_emision |-> d,
                         toneladas |-> t]
SowRow(c, d, pg, nic, mx) == [id_cliente |-> c, fecha_periodo |-> d, potencial_grupo |-> pg,
                              nicovita |-> nic, sow_max_alcanzable |-> mx]
PrecioRow(d, p) == [fecha |-> d, precio |-> [b \in Range(brackets) |-> p]]
ExportRow(d, lb, fob) == [fecha |-> d, total_lb |-> lb, total_fob |-> fob]
MpRow(d, usd, lb) == [fecha |-> d, total_usd |-> [m \in Range(materias) |-> usd],
                      libras_neto |-> [m \in Range(materias) |-> lb]]

\* The members of dom at the places I, in the order of dom.
Pick(dom, I) == LET at == SortedSeq(I) IN [k \in DOMAIN at |-> dom[at[k]]]

\* Every selection of at most n members of dom, in the order of dom.
PickUpTo(dom, n) == {Pick(dom, I) : I \in {J \in SUBSET DOMAIN dom : Cardinality(J) <= n}}

\* Every sequence of at most n members of the set S.
SeqUpTo(S, n) == UNION {[1..k -> S] : k \in 0..n}

\* columns_data.json for a product table: the outputs are the canonical sales
\* columns, the inputs every column of the merged table, and the share and
\* price columns aggregate by mean.
Config(prod) ==
    [columns_out |-> CanonicalVentas(prod),
     columns_order |-> CanonicalVentas(prod) \o columnas_esperadas_sow
                       \o columnas_exportaciones \o columnas_mp \o columnas_precios,
     columns_promedio |-> {c \in Range(columnas_esperadas_sow) : c.fam # "POTENCIAL_GRUPO"}
                          \cup Range(columnas_precios)]

InitWith(cl, nf, vs, ss, ps, es, ms) ==
    /\ cliente = cl
    /\ producto = Productos(nf)
    /\ venta = vs
    /\ sow = ss
    /\ precio_camaron = ps
    /\ exportacion = es
    /\ materia_prima = ms
    /\ columns_cfg = Config(Productos(nf))
    /\ model = [n_features_in |-> Len(Config(Productos(nf)).columns_order),
                n_features_out |-> Len(Config(Productos(nf)).columns_out)]
    /\ pc = "idle"
    /\ date = None
    /\ prediction_input = None
    /\ parts = None
    /\ predicted = None
    /\ model_prediction = None
    /\ display = None
    /\ excel = None
    /\ upload = None
    /\ uploading = [s \in Sessions |-> None]
    /\ cache = EmptyCache
    /\ answered = {}

MaxVentas == 2
MaxSow == 2

\* The sales that open the date picker at BaseDate only.
VentasBase == <<VentaRow(1, 1, BaseDate - LookbackWeeks * DaysPerWeek, 5),
                VentaRow(1, 1, BaseDate, 5)>>

\* Sales of three clients (the third has no slot in 1..7) and two products on
\* two dates of the window, in February and in March; two of them are of one
\* client, product and date.
VentasPivot ==
    <<VentaRow(1, 1, BaseDate - 10, 2), VentaRow(1, 1, BaseDate - 10, 4),
      VentaRow(2, 2, BaseDate - 10, 4), VentaRow(2, 2, BaseDate - 3, 5),
      VentaRow(3, 1, BaseDate - 3, 6), VentaRow(1, 2, BaseDate - 3, 7)>>

\* Share-of-wallet periods of February and March 2024 of the three clients;
\* two of them are of one client and period.
SowPivot ==
    <<SowRow(1, ToDatetime(<<2024, 2, 1>>), 2, 2, 5),
      SowRow(1, ToDatetime(<<2024, 2, 1>>), 4, 4, 8),
      SowRow(2, ToDatetime(<<2024, 2, 1>>), 1, 2, 3),
      SowRow(2, ToDatetime(<<2024, 3, 1>>), 6, 4, 2),
      SowRow(3, ToDatetime(<<2024, 3, 1>>), 7, 1, 9)>>

InitPivot ==
    \E vs \in PickUpTo(VentasPivot, MaxVentas), ss \in PickUpTo(SowPivot, MaxSow) :
        InitWith([i \in 1..3 |-> ClienteRow(i)], 2, VentasBase \o vs, ss,
                 <<PrecioRow(BaseDate - 40, 3)>>, <<>>, <<>>)

SpecPivot == InitPivot /\ [][Next]_vars

-----------------------------------------------------------------------------
(* The wide tables of the sales and of the share of wallet *)

\* The window of the request in hand.
fecha_desde == date - LookbackWeeks * DaysPerWeek
fecha_hasta == date - 1

\* The columns cols are the keys keys for every client slot 1..7, slot-major.
IsCanonical(cols, keys) ==
    /\ Len(cols) = 7 * Len(keys)
    /\ \A c \in 1..7 : \A k \in DOMAIN keys :
          cols[(c - 1) * Len(keys) + k] = Col(keys[k][1], keys[k][2], c)

\* Every row of df has a number in every column of df and in no other.
IsFull(df) ==
    \A i \in DOMAIN df.rows :
        /\ DOMAIN df.rows[i].v = Range(df.cols)
        /\ \A c \in Range(df.cols) : ~IsNaN(df.rows[i].v[c])

\* C1: whatever the sales and the share-of-wallet records of the window, the
\* wide table of get_ventas_for_prediction has exactly the columns family-line
\* x client slot 1..7 and the wide table get_sow_for_prediction builds has
\* exactly the columns metric x client slot 1..7, both slot-major in the
\* canonical order, and a cell of a date and a key that no record of the
\* window has holds 0, never a missing value.
C1_CanonicalColumns ==
    pc # "idle" =>
        LET dv == data_ventas(fecha_desde, fecha_hasta)
            ds == data_sow(fecha_desde, fecha_hasta)
            periodos == SortedSeq({r.FECHA : r \in Range(ds)})
            tv == parts.ventas
            ts == parts.sow.df
        IN  /\ IsCanonical(tv.cols, familias_lineas(producto))
            /\ IsFull(tv)
            /\ {tv.rows[i].FECHA : i \in DOMAIN tv.rows} = {r.FECHA : r \in Range(dv)}
            /\ \A i \in DOMAIN tv.rows : \A c \in Range(tv.cols) :
                  (\A r \in Range(dv) :
                      ~(r.FECHA = tv.rows[i].FECHA /\ r.CLIENTE_LINEA = c))
                  => tv.rows[i].v[c] = Zero
            /\ parts.sow.ok =>
                  /\ IsCanonical(ts.cols, [k \in DOMAIN columnas_sow |->
                                              <<columnas_sow[k], "">>])
                  /\ IsFull(ts)
                  /\ Len(ts.rows) = Len(periodos)
                  /\ \A i \in DOMAIN ts.rows : \A c \in Range(ts.cols) :
                        (\A r \in Range(ds) :
                            ~(r.FECHA = periodos[i] /\ LastChar(r.COD_CLIENTE) = c.slot))
                        => ts.rows[i].v[c] = Zero

\* A request whose window has a sale of a client without a slot, a sales cell
\* filled with 0 on a date that has another sale, and a share-of-wallet table
\* with a row and a cell filled with 0.
C1_Witness ==
    /\ pc = "fetched"
    /\ \E r \in Range(data_ventas(fecha_desde, fecha_hasta)) :
          r.CLIENTE_LINEA.slot \notin 1..7
    /\ \E i \in DOMAIN parts.ventas.rows : \E c, e \in Range(parts.ventas.cols) :
          parts.ventas.rows[i].v[c] = Zero /\ parts.ventas.rows[i].v[e] # Zero
    /\ parts.sow.ok
    /\ \E i \in DOMAIN parts.sow.df.rows : \E c, e \in Range(parts.sow.df.cols) :
          parts.sow.df.rows[i].v[c] = Zero /\ parts.sow.df.rows[i].v[e] # Zero

-----------------------------------------------------------------------------
(* The merged table *)

MaxJoin == 2

\* A sale of the window in February and one in March, on top of the sales
\* that open the date picker.
VentasMerge == VentasBase \o <<VentaRow(1, 1, BaseDate - 24, 3),
                                VentaRow(2, 1, BaseDate - 3, 4)>>

\* Exports: two records on the date of a sale and one on a date without sales.
ExportMerge == <<ExportRow(BaseDate - 24, 4000, 3), ExportRow(BaseDate - 24, 6000, 5),
                 ExportRow(BaseDate - 5, 2000, 1)>>

\* Raw material: two records on the date of a sale.
MpMerge == <<MpRow(BaseDate - 24, 2, 4000), MpRow(BaseDate - 24, 3, 6000)>>

\* Share of wallet: two periods of February 2024 and one of March.
SowMerge == <<SowRow(1, ToDatetime(<<2024, 2, 1>>), 2, 3, 5),
              SowRow(1, ToDatetime(<<2024, 2, 15>>), 4, 6, 8),
              SowRow(2, ToDatetime(<<2024, 3, 1>>), 1, 2, 3)>>

InitMerge ==
    \E es \in PickUpTo(ExportMerge, MaxJoin), ms \in PickUpTo(MpMerge, MaxJoin),
       ss \in PickUpTo(SowMerge, MaxSow) :
        InitWith([i \in 1..2 |-> ClienteRow(i)], 1, VentasMerge, ss,
                 <<PrecioRow(BaseDate - 40, 3)>>, es, ms)

SpecMerge == InitMerge /\ [][Next]_vars

\* The records of a table dated d.
RecordsOn(table, d) == {i \in DOMAIN table : table[i].fecha = d}

\* C2: whatever the five sources hold, several export or raw-material records
\* of one date and several share-of-wallet periods of one month included, the
\* merged table of get_prediction_data has exactly one row for every date of
\* the window that has a sale and no other row, and after the final fill a
\* cell without a joined-in record is 0.
C2_OneRowPerSaleDate ==
    (pc # "idle" /\ prediction_input.status = 200) =>
        LET rows == prediction_input.data.rows
            fechas == {r.FECHA : r \in Range(data_ventas(fecha_desde, fecha_hasta))}
        IN  /\ {rows[i].FECHA : i \in DOMAIN rows} = {Strftime(d) : d \in fechas}
            /\ Len(rows) = Cardinality(fechas)
            /\ IsFull(prediction_input.data)
            /\ \A i \in DOMAIN rows :
                  /\ RecordsOn(exportacion, ToDatetime(rows[i].FECHA)) = {}
                        => \A c \in Range(columnas_exportaciones) : rows[i].v[c] = Zero
                  /\ RecordsOn(materia_prima, ToDatetime(rows[i].FECHA)) = {}
                        => \A c \in Range(columnas_mp) : rows[i].v[c] = Zero

-----------------------------------------------------------------------------
(* The weekly rows, the flattened row and the tensor *)

MaxGaps == 2

\* Sales of one client and product that open the date picker at the seven
\* days BaseDate .. BaseDate + 6.
VentasWeek == <<VentaRow(1, 1, BaseDate - 28, 60), VentaRow(1, 1, BaseDate + 6, 5)>>

\* Sales of the same client and product in every week around the window: with
\* those of VentasWeek the four weeks before BaseDate sum to 100, 120, 90, 150.
VentasWeekly ==
    <<VentaRow(1, 1, BaseDate - 24, 40), VentaRow(1, 1, BaseDate - 21, 120),
      VentaRow(1, 1, BaseDate - 14, 90), VentaRow(1, 1, BaseDate - 7, 100),
      VentaRow(1, 1, BaseDate - 2, 50), VentaRow(1, 1, BaseDate + 1, 7)>>

\* All of these sales but at most MaxGaps of them.
InitWeekly ==
    \E gaps \in {J \in SUBSET DOMAIN VentasWeekly : Cardinality(J) <= MaxGaps} :
        InitWith([i \in 1..2 |-> ClienteRow(i)], 1,
                 VentasWeek \o Pick(VentasWeekly, DOMAIN VentasWeekly \ gaps),
                 <<SowRow(1, ToDatetime(<<2024, 2, 1>>), 2, 3, 5)>>,
                 <<PrecioRow(BaseDate - 40, 3)>>, <<>>, <<>>)

SpecWeekly == InitWeekly /\ [][Next]_vars

\* predict has resampled the merged table of the request.
Resampled == pc \in {"predicted", "failed", "displayed"} /\ prediction_input.status = 200

\* C3: for every target date the weekly rows predict keeps are the 4 most
\* recent complete calendar weeks that end before the target date: exactly 4
\* rows, each a week of 7 days of the lookback window.
C3_FourCompleteWeeks ==
    Resampled =>
        LET kept == predicted.input_data
            last == WeekEnd(date - DaysPerWeek)
        IN  /\ Len(kept) = 4
            /\ \A i \in DOMAIN kept :
                  /\ kept[i].FECHA = last - DaysPerWeek * (4 - i)
                  /\ kept[i].FECHA < date
                  /\ fecha_desde <= kept[i].FECHA - (DaysPerWeek - 1)

\* The flattened row is week-major, oldest kept week first, the declared
\* columns in their order inside each week; token[i] is the week token of
\* the i-th kept week.
IsWeekMajor(kept, flat, order, token) ==
    /\ Len(flat.names) = Len(kept) * Len(order)
    /\ Len(flat.values) = Len(kept) * Len(order)
    /\ \A i \in 1..(Len(kept) - 1) : kept[i].FECHA < kept[i + 1].FECHA
    /\ \A i \in DOMAIN kept : \A j \in DOMAIN order :
          /\ flat.names[(i - 1) * Len(order) + j] = [W |-> token[i], col |-> order[j]]
          /\ flat.values[(i - 1) * Len(order) + j] = kept[i].v[order[j]]

\* C4 as the code has it: the flattened row is week-major, oldest kept week
\* first, with the declared column order inside each week, and the name of a
\* column is prefixed with W and the ISO week number of its week.
C4_WeekMajorIsoWeek ==
    Resampled =>
        IsWeekMajor(predicted.input_data, predicted.input_flat, columns_cfg.columns_order,
                    [i \in DOMAIN predicted.input_data |-> IsoWeek(predicted.input_data[i].FECHA)])

\* C4 as stated: the prefix is the week offset, W1 for the oldest kept week
\* up to W4 for the most recent.
C4_WeekOffsetTokens ==
    Resampled =>
        IsWeekMajor(predicted.input_data, predicted.input_flat, columns_cfg.columns_order,
                    [i \in DOMAIN predicted.input_data |-> i])

\* The request for 2024-03-04 whose four weeks sum to 100, 120, 90, 150 for
\* the first sales column X: the row has W6_X = 100, W7_X = 120, W8_X = 90,
\* W9_X = 150, each at the place of X in its week.
C4_Witness ==
    /\ pc = "predicted"
    /\ date = BaseDate
    /\ LET flat == predicted.input_flat
           n == Len(columns_cfg.columns_order)
           X == columns_cfg.columns_order[1]
       IN  /\ Len(flat.names) = 4 * n
           /\ \A i \in 1..4 :
                 /\ flat.names[(i - 1) * n + 1] = [W |-> 5 + i, col |-> X]
                 /\ flat.values[(i - 1) * n + 1] = Q(<<100, 120, 90, 150>>[i])

\* C6: the tensor predict passes to the model has shape (1, 4, F), F the
\* number of declared input columns, every entry of it lies in [0, 1], and it
\* is the flattened row scaled by the scaler fitted on that one row.
C6_TensorShapeAndRange ==
    (Resampled /\ predicted.model_called) =>
        LET X == predicted.X_reshaped
        IN  /\ Len(X) = 4
            /\ \A lag \in DOMAIN X :
                  /\ Len(X[lag]) = Len(columns_cfg.columns_order)
                  /\ \A f \in DOMAIN X[lag] :
                        ~IsNaN(X[lag][f]) /\ QLeq(Zero, X[lag][f]) /\ QLeq(X[lag][f], One)
            /\ Flatten(X) = MinMaxTransform(MinMaxFit(<<predicted.input_flat.values>>),
                                            predicted.input_flat.values)

-----------------------------------------------------------------------------
(* The shrimp prices of the window *)

MaxPrecios == 2

\* A sale in each of the four weeks before BaseDate and one on BaseDate: the
\* date picker opens at BaseDate only.
VentasFour == [k \in 1..5 |-> VentaRow(1, 1, BaseDate - 7 * (5 - k), 10 * k)]

\* Price records: two of one date before the window, one on its first day, two
\* on its tenth day, one near its end.
PreciosPool == <<PrecioRow(BaseDate - 30, 4), PrecioRow(BaseDate - 30, 9),
                 PrecioRow(BaseDate - 28, 5), PrecioRow(BaseDate - 19, 6),
                 PrecioRow(BaseDate - 19, 7), PrecioRow(BaseDate - 5, 8)>>

\* The table holds at most MaxPrecios of them, in whatever order the engine
\* returns its rows.
InitPrecios ==
    \E ps \in {s \in SeqUpTo(DOMAIN PreciosPool, MaxPrecios) : NoDuplicates(s)} :
        InitWith([i \in 1..2 |-> ClienteRow(i)], 1, VentasFour, <<>>,
                 [k \in DOMAIN ps |-> PreciosPool[ps[k]]], <<>>, <<>>)

SpecPrecios == InitPrecios /\ [][Next]_vars

\* The price records dated at or before d that no other such record is later than.
MostRecent(d) ==
    {i \in DOMAIN precio_camaron :
        /\ precio_camaron[i].fecha <= d
        /\ \A j \in DOMAIN precio_camaron :
              precio_camaron[j].fecha <= d => precio_camaron[j].fecha <= precio_camaron[i].fecha}

\* C5: the table of get_precios_camaron_for_prediction has one row for every
\* calendar day d of the window, and that row carries the prices (per ton) of
\* the most recent price record dated at or before d among the records of the
\* window and the most recent one dated at or before the window start.
C5_MostRecentPrice ==
    (pc # "idle" /\ parts.precios.ok) =>
        LET rows == parts.precios.df.rows
        IN  /\ Len(rows) = fecha_hasta - fecha_desde + 1
            /\ \A i \in DOMAIN rows :
                  /\ rows[i].FECHA = fecha_desde + i - 1
                  /\ MostRecent(rows[i].FECHA) # {} =>
                        \E r \in MostRecent(rows[i].FECHA) :
                            \A c \in Range(columnas_precios) :
                                rows[i].v[c] = Q(TonFactor * precio_camaron[r].precio[c.fam])

\* Records on day 1 and on day 10 of the window only: days 1..9 carry the
\* price of day 1, days 10..28 that of day 10.
C5_Witness ==
    /\ pc = "fetched"
    /\ parts.precios.ok
    /\ {precio_camaron[i].fecha : i \in DOMAIN precio_camaron} = {fecha_desde, fecha_desde + 9}
    /\ Len(precio_camaron) = 2
    /\ \A i \in DOMAIN parts.precios.df.rows : \A c \in Range(columnas_precios) :
          parts.precios.df.rows[i].v[c] = Q(TonFactor * (IF i < 10 THEN 5 ELSE 6))

-----------------------------------------------------------------------------
(* The week tables and the summaries of the result *)

MaxClientes == 3

\* The numbers of product families of the store: 5 families give the 70
\* output columns of the model in use, 2 families give 28.
FamiliasDisplay == {2, 5}

\* The client table holds at most MaxClientes of three clients, in whatever
\* order the engine returns its rows.
InitDisplay ==
    \E nf \in FamiliasDisplay :
        \E cl \in {s \in SeqUpTo(1..3, MaxClientes) : NoDuplicates(s)} :
            InitWith([k \in DOMAIN cl |-> ClienteRow(cl[k])], nf, VentasFour, <<>>,
                     <<PrecioRow(BaseDate - 40, 3)>>, <<>>, <<>>)

SpecDisplay == InitDisplay /\ [][Next]_vars

\* process_display_data has run on the prediction of the request.
Displayed == pc \in {"displayed", "failed"} /\ display # None

\* The predicted value of forecast week k in the j-th output column.
Predicted(k, j) == model_prediction[(k - 1) * Len(columns_cfg.columns_out) + j]

\* C7: for every length of the declared output column list
\* process_display_data splits the flat prediction into 4 consecutive segments
\* of that length, gives segment k to week k under the output column names,
\* and the 4 week rows put end to end are the prediction again.
C7_SegmentsOfOutputLength ==
    Displayed =>
        /\ ~display.raised
        /\ \A k \in 1..4 :
              /\ display.weeks[k].cols = columns_cfg.columns_out
              /\ Len(display.weeks[k].values) = Len(columns_cfg.columns_out)
              /\ \A j \in DOMAIN columns_cfg.columns_out :
                    display.weeks[k].values[j] = Predicted(k, j)
        /\ Flatten([k \in 1..4 |-> display.weeks[k].values]) = model_prediction

\* The sum of the predicted values of week k over the output columns at the
\* places J.
SumOver(k, J) ==
    AggSum([j \in DOMAIN columns_cfg.columns_out |-> IF j \in J THEN Predicted(k, j) ELSE Zero])

\* C8: for each forecast week and each of the tags SEEDING and VOLUMA, the
\* subtotal of build_line_group_dataframes is the sum, over all clients, of
\* the week's predicted values in every output column that has the tag.
C8_LineGroupSubtotal ==
    pc = "displayed" =>
        \A k \in 1..4 :
            /\ display.seeding_weekly_df[k].Total =
                  SumOver(k, {j \in DOMAIN columns_cfg.columns_out :
                                 columns_cfg.columns_out[j].lin = "SEEDING"})
            /\ display.voluma_weekly_df[k].Total =
                  SumOver(k, {j \in DOMAIN columns_cfg.columns_out :
                                 columns_cfg.columns_out[j].lin = "VOLUMA"})

\* C9: for each forecast week k the Total of build_weekly_summary is the sum
\* of the week's predicted values over all output columns, and row k of the
\* summary has week number k and the date target + (k - 1) weeks.
C9_WeeklyTotal ==
    pc = "displayed" =>
        /\ Len(display.weekly_summary) = 4
        /\ \A k \in 1..4 :
              /\ display.weekly_summary[k].Semana = k
              /\ display.weekly_summary[k].Fecha = date + 7 * (k - 1)
              /\ display.weekly_summary[k].Total =
                    SumOver(k, DOMAIN columns_cfg.columns_out)

\* A displayed result whose four totals differ and are not all zero.
C9_Witness ==
    /\ pc = "displayed"
    /\ \A k \in 1..3 :
          display.weekly_summary[k].Total # display.weekly_summary[k + 1].Total
    /\ display.weekly_summary[1].Total # Zero

\* C10: in every week table the row of client slot N is labelled with the
\* name of the N-th client of the list of get_clients, and its value for
\* family-line L is the week's predicted value of output column L_N.
C10_SlotLabels ==
    pc = "displayed" =>
        \A k \in 1..4 :
            LET out == columns_cfg.columns_out
                slots == SortedSeq({out[j].slot : j \in DOMAIN out})
                rows == display.pivots[k].rows
            IN  /\ Len(rows) = Len(slots)
                /\ \A r \in DOMAIN rows :
                      /\ slots[r] <= Len(cliente) =>
                            rows[r].CLIENTE.nombre = cliente[slots[r]].des_cliente
                      /\ \A j \in DOMAIN out :
                            out[j].slot = slots[r] =>
                               rows[r].v[<<out[j].fam, out[j].lin>>] = Predicted(k, j)

\* The client list [A, B, C] labels the slots 1, 2, 3 as A, B, C.
C10_Witness ==
    /\ pc = "displayed"
    /\ get_clients = <<"A", "B", "C">>
    /\ \A n \in 1..3 : display.pivots[1].rows[n].CLIENTE.nombre = <<"A", "B", "C">>[n]
    /\ display.pivots[1].rows[2].v[<<Familias[1], "VOLUMA">>] # Zero

-----------------------------------------------------------------------------
(* The aggregation of the records of one bucket *)

\* The share-of-wallet records of the window of period d and client slot s.
SowBucket(d, s) ==
    SelectSeq(data_sow(fecha_desde, fecha_hasta),
              LAMBDA r : r.FECHA = d /\ LastChar(r.COD_CLIENTE) = s)

\* The sales of the window of date d and column c.
VentasBucket(d, c) ==
    SelectSeq(data_ventas(fecha_desde, fecha_hasta),
              LAMBDA r : r.FECHA = d /\ r.CLIENTE_LINEA = c)

\* The periods of the share-of-wallet records of the window, in order.
Periodos == SortedSeq({r.FECHA : r \in Range(data_sow(fecha_desde, fecha_hasta))})

\* The sum and the mean of the field of the records.
SumOf(records, field) == AggSum([i \in DOMAIN records |-> Q(records[i][field])])
MeanOf(records, field) == QDiv(SumOf(records, field), Q(Len(records)))

\* C11: when several records fall in one bucket, the sales tonnage of a date,
\* client slot and family-line is the sum of the records and the NICOVITA
\* share of a period and client is their mean: records 2 and 4 give 6 for the
\* tonnage and 3 for NICOVITA.
C11_SumAndMean ==
    pc # "idle" =>
        /\ \A i \in DOMAIN parts.ventas.rows : \A c \in Range(parts.ventas.cols) :
              parts.ventas.rows[i].v[c] =
                 SumOf(VentasBucket(parts.ventas.rows[i].FECHA, c), "TONELADAS")
        /\ parts.sow.ok =>
              \A i \in DOMAIN parts.sow.df.rows : \A s \in 1..7 :
                  SowBucket(Periodos[i], s) # <<>> =>
                     parts.sow.df.rows[i].v[Col("NICOVITA", "", s)] =
                        MeanOf(SowBucket(Periodos[i], s), "NICOVITA")

\* The sales 2 and 4 of one date and column give 6, the NICOVITA shares 2
\* and 4 of one period and client give 3.
C11_Witness ==
    /\ pc = "fetched"
    /\ parts.sow.ok
    /\ \E i \in DOMAIN parts.ventas.rows : \E c \in Range(parts.ventas.cols) :
          /\ Len(VentasBucket(parts.ventas.rows[i].FECHA, c)) = 2
          /\ parts.ventas.rows[i].v[c] = Q(6)
    /\ \E i \in DOMAIN parts.sow.df.rows :
          /\ Len(SowBucket(Periodos[i], 1)) = 2
          /\ parts.sow.df.rows[i].v[Col("NICOVITA", "", 1)] = Q(3)

\* C12: in the share-of-wallet pivot POTENCIAL_GRUPO is aggregated by mean
\* within a period and client, like the other ratio metrics: records with
\* potential group 2 and 4 of one client and period yield 3.
C12_PotencialGrupoMean ==
    (pc # "idle" /\ parts.sow.ok) =>
        \A i \in DOMAIN parts.sow.df.rows : \A s \in 1..7 :
            SowBucket(Periodos[i], s) # <<>> =>
               parts.sow.df.rows[i].v[Col("POTENCIAL_GRUPO", "", s)] =
                  MeanOf(SowBucket(Periodos[i], s), "POTENCIAL_GRUPO")

-----------------------------------------------------------------------------
(* The lookback window and the forecast dates *)

\* The dates of the rows of a frame.
RowDates(df) == {df.rows[i].FECHA : i \in DOMAIN df.rows}

\* The sales that join a client and a product.
JoinedVentas ==
    {i \in DOMAIN venta :
        /\ \E c \in Range(cliente) : c.id_cliente = venta[i].id_cliente
        /\ \E q \in Range(producto) : q.id_producto = venta[i].id_producto}

\* C13: for every target date T the window read by get_prediction_data is the
\* 28 consecutive days T - 28 .. T - 1, never T itself, and the 4 forecast
\* weeks are dated T, T + 7, T + 14 and T + 21 days.
C13_LookbackAndForecastDates ==
    /\ pc # "idle" =>
          /\ RowDates(parts.ventas) =
                {venta[i].fecha_emision : i \in
                    {j \in JoinedVentas : /\ date - 28 <= venta[j].fecha_emision
                                          /\ venta[j].fecha_emision <= date - 1}}
          /\ RowDates(parts.exportaciones) =
                {r.fecha : r \in {x \in Range(exportacion) :
                                     date - 28 <= x.fecha /\ x.fecha <= date - 1}}
          /\ RowDates(parts.mp) =
                {r.fecha : r \in {x \in Range(materia_prima) :
                                     date - 28 <= x.fecha /\ x.fecha <= date - 1}}
          /\ parts.precios.ok =>
                /\ Len(parts.precios.df.rows) = 28
                /\ \A i \in 1..28 : parts.precios.df.rows[i].FECHA = date - 28 + (i - 1)
    /\ pc = "displayed" =>
          /\ [k \in 1..4 |-> display.weekly_summary[k].Fecha] =
                <<date, date + 7, date + 14, date + 21>>
          /\ \A k \in 1..4 :
                /\ display.seeding_weekly_df[k].Fecha = date + 7 * (k - 1)
                /\ display.voluma_weekly_df[k].Fecha = date + 7 * (k - 1)

\* A displayed request whose store holds a sale on the target date and a sale
\* 28 days before it: the first is left out, the second is read.
C13_Witness ==
    /\ pc = "displayed"
    /\ \E i \in JoinedVentas : venta[i].fecha_emision = date
    /\ \E i \in JoinedVentas : venta[i].fecha_emision = date - 28
    /\ date - 28 \in RowDates(parts.ventas)
    /\ date \notin RowDates(parts.ventas)

-----------------------------------------------------------------------------
(* The days of the feature table *)

\* The additive columns: sales, raw material and exports.
AdditiveColumns ==
    Range(columnas_esperadas_ventas) \cup Range(columnas_mp)
       \cup Range(columnas_exportaciones)

\* C14: the daily feature table of a window has a row, with a value in every
\* feature, for every calendar day of the window, the days without a sale
\* included, and on those days the sales, raw-material and export columns
\* are 0.
C14_RowForEveryDay ==
    (pc # "idle" /\ prediction_input.status = 200) =>
        LET rows == prediction_input.data.rows
        IN  /\ IsFull(prediction_input.data)
            /\ \A d \in fecha_desde..fecha_hasta :
                  \E i \in DOMAIN rows :
                      /\ rows[i].FECHA = Strftime(d)
                      /\ (\A j \in JoinedVentas : venta[j].fecha_emision # d)
                            => \A c \in AdditiveColumns \cap Range(prediction_input.data.cols) :
                                   rows[i].v[c] = Zero

-----------------------------------------------------------------------------
(* The days before the first price record of the window *)

\* The price records of the window that no other record of it is earlier than.
EarliestInWindow ==
    {i \in DOMAIN precio_camaron :
        /\ fecha_desde <= precio_camaron[i].fecha /\ precio_camaron[i].fecha <= fecha_hasta
        /\ \A j \in DOMAIN precio_camaron :
              fecha_desde <= precio_camaron[j].fecha
                 => precio_camaron[i].fecha <= precio_camaron[j].fecha}

\* C15: when no price record is dated at or before the start of the window,
\* every day of the window before its first price record carries the prices
\* of that record, in the price table and in the feature table: none of them
\* is missing or zero.
C15_PricesCarriedBackward ==
    (/\ pc # "idle"
     /\ prediction_input.status = 200
     /\ MostRecent(fecha_desde) = {}
     /\ EarliestInWindow # {}) =>
        /\ \A i \in DOMAIN parts.precios.df.rows :
              LET r == parts.precios.df.rows[i]
              IN  (\A e \in EarliestInWindow : r.FECHA < precio_camaron[e].fecha) =>
                     \E e \in EarliestInWindow : \A c \in Range(columnas_precios) :
                         r.v[c] = QMul(Q(precio_camaron[e].precio[c.fam]), Q(TonFactor))
        /\ \A i \in DOMAIN prediction_input.data.rows :
              LET r == prediction_input.data.rows[i]
              IN  (\A e \in EarliestInWindow : ToDatetime(r.FECHA) < precio_camaron[e].fecha) =>
                     \E e \in EarliestInWindow : \A c \in Range(columnas_precios) :
                         r.v[c] = QMul(Q(precio_camaron[e].precio[c.fam]), Q(TonFactor))

-----------------------------------------------------------------------------
(* Scaling and inverse scaling *)

\* The flattened rows predict has scaled: the input row and the output row.
FlattenedRows == {predicted.input_flat.values, predicted.output_flat.values}

\* The row after fit_transform and inverse_transform with one scaler.
RoundTrip(row) ==
    LET scaler == MinMaxFit(<<row>>)
    IN  MinMaxInverse(scaler, MinMaxTransform(scaler, row))

-----------------------------------------------------------------------------
(* The workbook of the download *)

\* The data rows of the sheet, by row number.
DataRows == {r \in DOMAIN excel.rows : "Semana" \in DOMAIN excel.rows[r]}

\* The rows of the sheet that carry the label of week k.
BlockRows(k) == {r \in DataRows : excel.rows[r].Semana.Semana = k}

\* C17: write_excel writes the 4 week tables to one sheet, one below the
\* other in the order of the weeks 1..4, no two of them on a common row, and
\* every row of table N carries the label "Semana N (d)", d the target date
\* plus N - 1 weeks as YYYY-MM-DD.
C17_StackedWeekBlocks ==
    pc = "displayed" =>
        /\ excel.sheets = <<"Semanas">>
        /\ \A k \in 1..4 : BlockRows(k) # {}
        /\ \A k \in 1..3 : \A r \in BlockRows(k), s \in BlockRows(k + 1) : r < s
        /\ \A k \in 1..4 :
              LET start == CHOOSE r \in BlockRows(k) : \A s \in BlockRows(k) : r <= s
                  rows == display.pivots[k].rows
              IN  /\ BlockRows(k) = start..(start + Len(rows) - 1)
                  /\ \A i \in DOMAIN rows :
                        /\ excel.rows[start + i - 1].Semana =
                              [Semana |-> k, Fecha |-> Strftime(date + 7 * (k - 1))]
                        /\ excel.rows[start + i - 1].CLIENTE = rows[i].CLIENTE
                        /\ excel.rows[start + i - 1].v = rows[i].v

\* A workbook for target date 2024-03-04 whose tables have several rows: the
\* labels are dated 2024-03-04, 2024-03-11, 2024-03-18 and 2024-03-25.
C17_Witness ==
    /\ pc = "displayed"
    /\ Len(display.pivots[1].rows) > 1
    /\ {excel.rows[r].Semana : r \in DataRows} =
          {[Semana |-> 1, Fecha |-> <<2024, 3, 4>>], [Semana |-> 2, Fecha |-> <<2024, 3, 11>>],
           [Semana |-> 3, Fecha |-> <<2024, 3, 18>>], [Semana |-> 4, Fecha |-> <<2024, 3, 25>>]}

-----------------------------------------------------------------------------
(* A read that raises *)

\* One of the reads of the request has raised.
ReadRaised == pc # "idle" /\ (~parts.sow.ok \/ ~parts.precios.ok)

\* C18: when a read or the merge raises, get_prediction_data returns
\* ("Something went wrong", 500) and no table, and the request ends without a
\* prediction, a week table, a summary or a workbook.
C18_FailedReadEndsRequest ==
    ReadRaised =>
        /\ prediction_input = [data |-> EmptyFrame, msg |-> "Something went wrong",
                               status |-> 500]
        /\ pc \in {"fetched", "failed"}
        /\ model_prediction = None
        /\ display = None
        /\ excel = None

\* The request has ended after the price read raised.
C18_Witness ==
    /\ ReadRaised
    /\ ~parts.precios.ok
    /\ pc = "failed"
    /\ predicted.raised

-----------------------------------------------------------------------------
(* The uploads *)

Jan2024 == ToDatetime(<<2024, 1, 15>>)

\* The sales and the share of wallet of January 2024 are stored; the prices,
\* the exports and the raw material of that month are stored or not.
InitUpload ==
    \E ps \in {<<>>, <<PrecioRow(Jan2024, 3)>>},
       es \in {<<>>, <<ExportRow(Jan2024, 4000, 3)>>},
       ms \in {<<>>, <<MpRow(Jan2024, 2, 4000)>>} :
        InitWith([i \in 1..2 |-> ClienteRow(i)], 1, <<VentaRow(1, 1, Jan2024, 5)>>,
                 <<SowRow(1, Jan2024, 2, 3, 5)>>, ps, es, ms)

SpecUpload == InitUpload /\ [][NextUpload]_vars

\* The table an upload of the page fills.
TargetTable(tabla) ==
    CASE tabla = "Ventas" -> "venta"
      [] tabla = "Share of Wallet" -> "sow"
      [] tabla = "Materia Prima" -> "materia_prima"
      [] tabla = "Precio Camaron" -> "precio_camaron"
      [] tabla = "Exportaciones" -> "exportacion"

\* The table holds a record dated in the month of d.
HoldsMonth(table, d) ==
    \E f \in Range(TableDates(table)) : <<YearOf(f), MonthOf(f)>> = <<YearOf(d), MonthOf(d)>>

\* The table holds a record dated in the month before the month of d.
HoldsMonthBefore(table, d) == HoldsMonth(table, FirstDayOfMonth(d) - 1)

\* Every row of the file is of a month the table has no record of, and the
\* table has a record of the month before it.
MayInsert(archivo, table) ==
    \A i \in DOMAIN archivo :
        /\ ~HoldsMonth(table, archivo[i].FEC_EMISION)
        /\ HoldsMonthBefore(table, archivo[i].FEC_EMISION)

\* C20: an upload inserts rows only when, for every row of its file, the
\* target table holds no record of the row's month and at least one of the
\* month before; otherwise it answers 400 with the message of the failed
\* check and leaves the store as it was.
C20_UploadMonthChecks ==
    [][upload' # upload =>
          LET table == TargetTable(upload'.tabla)
          IN  /\ store' # store => MayInsert(upload'.archivo, table)
              /\ ~MayInsert(upload'.archivo, table) =>
                    /\ upload'.response.status = 400
                    /\ upload'.response.msg =
                          IF \E i \in DOMAIN upload'.archivo :
                                HoldsMonth(table, upload'.archivo[i].FEC_EMISION)
                          THEN "Ya existe data para el mes que se desea cargar"
                          ELSE "No existe data para el mes anterior"
                    /\ store' = store]_vars

-----------------------------------------------------------------------------
(* Requests and store updates *)

\* Sales of every week before BaseDate, share of wallet and prices of January
\* 2024; the one target date the picker accepts is BaseDate.
InitSession ==
    InitWith([i \in 1..2 |-> ClienteRow(i)], 5, VentasFour,
             <<SowRow(1, Jan2024, 2, 3, 5)>>, <<PrecioRow(Jan2024, 3)>>, <<>>, <<>>)

SpecSession == InitSession /\ [][NextSession]_vars

\* C19: whatever requests and store updates came before, a request for target
\* date T is answered from the store as it is at the time of the request: the
\* feature table is the one get_prediction_data builds from the store now,
\* and the week tables carry the client names of the store now; no result an
\* earlier request computed is returned once the data has changed.
C19_AnsweredFromCurrentStore ==
    /\ pc # "idle" =>
          \E anchor \in AnchorChoices(fecha_desde) :
              prediction_input = get_prediction_data(PredictionParts(date, anchor))
    /\ pc = "displayed" =>
          \A k \in 1..4 : display.pivots[k] = build_week_dataframes(display.weeks[k])

\* A request for a date that an earlier request was answered for with another
\* feature table: the store has changed in between.
C19_Witness ==
    /\ pc = "displayed"
    /\ \E a \in answered :
          /\ a.date = date
          /\ a.prediction_input.status = 200
          /\ prediction_input.status = 200
          /\ a.prediction_input # prediction_input

-----------------------------------------------------------------------------
(* Uploads of two sessions *)

\* The sales and the share of wallet of January 2024 are stored.
InitConcurrent ==
    InitWith([i \in 1..2 |-> ClienteRow(i)], 1, <<VentaRow(1, 1, Jan2024, 5)>>,
             <<SowRow(1, Jan2024, 2, 3, 5)>>, <<>>, <<>>, <<>>)

SpecConcurrent == InitConcurrent /\ [][NextConcurrent]_vars

\* The session ends its upload in this step.
Commits(s) == uploading[s] # None /\ uploading'[s] = None

\* C21: of two uploads of the same table and month at most one inserts: a
\* session commits rows only of months of which the table holds no record,
\* whatever the other session did between its checks and its commit.
C21_OneUploadPerMonth ==
    [][\A s \in Sessions :
          Commits(s) /\ store' # store =>
             \A i \in DOMAIN uploading[s].data.rows :
                ~HoldsMonth(TargetTable(uploading[s].tabla),
                            uploading[s].data.rows[i].FEC_EMISION)]_vars

-----------------------------------------------------------------------------
(* The outcomes of an upload *)

\* The table names the upload path passes to its checks.
Tables == {"venta", "sow", "exportacion", "precio_camaron", "materia_prima"}

\* The dates of the rows of a file, in the column the checks read.
FileFechas(archivo) == [i \in DOMAIN archivo |-> archivo[i].FEC_EMISION]

\* The submit of this step was of a workbook whose rows pass both month
\* checks of the upload.
PassesChecks ==
    /\ upload' # upload
    /\ upload'.workbook
    /\ UploadChecks(upload'.archivo, TargetTable(upload'.tabla)) = None

\* C22: each of the five uploads, given a workbook whose rows pass both month
\* checks and a database that rejects no insert, adds one record per row of
\* the file to its table, dated as the row, and returns
\* ("Data uploaded successfully", 200).
C22_CheckedFileIsInserted ==
    [][PassesChecks /\ upload'.rejected = 0 =>
          /\ ~upload'.raised
          /\ upload'.response = Uploaded
          /\ \A table \in Tables :
                table = TargetTable(upload'.tabla) =>
                   TableDates(table)' = TableDates(table) \o FileFechas(upload'.archivo)]_vars

\* C23: each of the five uploads, when the file cannot be read or the
\* database rejects one of its inserts, returns ("Something went wrong", 500)
\* without raising, and the store is left as it was before the upload.
C23_FailureIsAnswered500 ==
    [][upload' # upload /\ (~upload'.workbook \/ upload'.rejected # 0) =>
          /\ ~upload'.raised
          /\ upload'.response = SomethingWentWrong
          /\ store' = store]_vars

\* C24: for each of the five table names and each date,
\* check_previous_month_data is true exactly when that table holds a record
\* dated in the calendar month before the month of the date (December of the
\* year before for a date in January).
C24_PreviousMonthOfSameTable ==
    \A table \in Tables : \A d \in Range(FileDates) \cup {Jan2024} :
        check_previous_month_data(d, table) <=> HoldsMonthBefore(table, d)

-----------------------------------------------------------------------------
(* The dashboard *)

\* The filters of the sidebar: a year, a month, and at most one client name
\* and one stage.
HistoricParams ==
    [year : {2023, 2024}, month : {1, 2, 3, 12},
     client : {{}} \cup {{c.des_cliente} : c \in Range(cliente)},
     stage : {{}} \cup {{l} : l \in Range(lineas)}]

\* The places of the sales of a calendar month that match every filter given.
Matching(year, month, params) ==
    {i \in DOMAIN venta :
        /\ <<YearOf(venta[i].fecha_emision), MonthOf(venta[i].fecha_emision)>> = <<year, month>>
        /\ params.client # {} =>
              \E c \in Range(cliente) :
                 c.id_cliente = venta[i].id_cliente /\ c.des_cliente \in params.client
        /\ params.stage # {} =>
              \E q \in Range(producto) :
                 q.id_producto = venta[i].id_producto /\ q.grupo_linea \in params.stage}

\* C25: for every year, month and optional client and stage, get_historic
\* returns the sales of that month and the sales of the month before it
\* (December of the year before for January) that match the filters, with
\* status 200; and when it fails instead, draw_results shows the error
\* notice and returns without raising.
C25_HistoricOfTwoMonths ==
    \A params \in HistoricParams :
        LET response == get_historic(params)
            past == IF params.month = 1 THEN <<params.year - 1, 12>>
                    ELSE <<params.year, params.month - 1>>
        IN  IF Len(response) = 3
            THEN /\ response[3] = 200
                 /\ response[1] = Fetchall(Matching(params.year, params.month, params))
                 /\ response[2] = Fetchall(Matching(past[1], past[2], params))
            ELSE draw_results(params) = [raised |-> FALSE, shown |-> "Error al cargar los datos"]

-----------------------------------------------------------------------------
(* What the model is given and what is made of its output *)

\* C26: the tensor predict passes to the model holds 0 in every entry, so
\* that two feature tables of one shape give the model the same tensor and
\* its raw output cannot depend on the values of the features.
C26_TensorIsAllZero ==
    (Resampled /\ predicted.model_called) =>
        \A lag \in DOMAIN predicted.X_reshaped :
            \A f \in DOMAIN predicted.X_reshaped[lag] :
                predicted.X_reshaped[lag][f] = Zero

\* The records of the sales of the window in the week that ends on the day
\* sunday, of the column c.
WeekBucket(sunday, c) ==
    SelectSeq(data_ventas(fecha_desde, fecha_hasta),
              LAMBDA r : WeekEnd(r.FECHA) = sunday /\ r.CLIENTE_LINEA = c)

\* predict has returned a prediction for the request.
Returned4Weeks == pc \in {"predicted", "displayed"} /\ model_prediction # None

\* C27: the prediction predict returns for forecast week k and output column
\* c is the raw output of the model for (k, c) plus the tonnage the sales of
\* the lookback window sum to for column c in the k-th week predict kept.
C27_PredictionIsRawPlusWeekSum ==
    Returned4Weeks =>
        LET out == columns_cfg.columns_out
        IN  \A k \in 1..n_lags : \A j \in DOMAIN out :
               model_prediction[(k - 1) * Len(out) + j] =
                  QAdd(predicted.raw[k][j],
                       SumOf(WeekBucket(predicted.input_data[k].FECHA, out[j]), "TONELADAS"))

\* A prediction returned for a window with sales in each of the four kept
\* weeks, where some raw output that is not 0 meets a week sum that is not 0.
C27_Witness ==
    /\ Returned4Weeks
    /\ LET out == columns_cfg.columns_out
       IN  /\ \A k \in 1..n_lags :
                 \E j \in DOMAIN out : WeekBucket(predicted.input_data[k].FECHA, out[j]) # <<>>
           /\ \E k \in 1..n_lags : \E j \in DOMAIN out :
                 /\ predicted.raw[k][j] # Zero
                 /\ model_prediction[(k - 1) * Len(out) + j] # predicted.raw[k][j]

-----------------------------------------------------------------------------
(* Clients and their slots *)

\* C28: in the wide table of get_ventas_for_prediction the cells of the row
\* of a date add up to the tonnage of all the sales of that date, whatever
\* the client codes and the product families of the records.
C28_TonnageConserved ==
    pc # "idle" =>
        LET dv == data_ventas(fecha_desde, fecha_hasta)
            tv == parts.ventas
        IN  \A i \in DOMAIN tv.rows :
               AggSum([j \in DOMAIN tv.cols |-> tv.rows[i].v[tv.cols[j]]]) =
                  SumOf(SelectSeq(dv, LAMBDA r : r.FECHA = tv.rows[i].FECHA), "TONELADAS")

\* The slot of a client in the sales columns: cod_cliente - 2100000.
SlotVentas(c) == c.cod_cliente - CodBase

\* The slot of a client in the share-of-wallet columns: the last character of
\* its code.
SlotSow(c) == LastChar(c.cod_cliente)

\* mapeo_clientes of build_week_dataframes: slot number to the name at that
\* place of the client list.
mapeo_clientes == [i \in DOMAIN get_clients |-> get_clients[i]]

\* C29: for every client the slot of its sales columns, the slot of its
\* share-of-wallet columns and the place of its name in the client list that
\* labels the prediction are one number, and no two clients have a slot in
\* common.
C29_OneSlotPerClient ==
    \A i \in DOMAIN cliente :
        /\ SlotVentas(cliente[i]) = SlotSow(cliente[i])
        /\ SlotVentas(cliente[i]) \in DOMAIN mapeo_clientes
        /\ mapeo_clientes[SlotVentas(cliente[i])] = cliente[i].des_cliente
        /\ \A j \in DOMAIN cliente :
              i # j => /\ SlotVentas(cliente[i]) # SlotVentas(cliente[j])
                       /\ SlotSow(cliente[i]) # SlotSow(cliente[j])

-----------------------------------------------------------------------------
(* A window across the end of a year *)

\* Weekly sales from 2023-12-11 to 2024-01-15: the picker accepts the target
\* dates 2024-01-08 .. 2024-01-15, whose windows start in December 2023 and
\* end in January 2024.
VentasYearEnd ==
    [k \in 1..6 |-> VentaRow(1, 1, ToDatetime(<<2023, 12, 11>>) + 7 * (k - 1), 10 * k)]

\* One share-of-wallet record per client for December 2023 and for January 2024.
SowYearEnd ==
    <<SowRow(1, ToDatetime(<<2023, 12, 1>>), 2, 3, 5),
      SowRow(2, ToDatetime(<<2023, 12, 1>>), 4, 1, 6),
      SowRow(1, ToDatetime(<<2024, 1, 1>>), 6, 7, 8),
      SowRow(2, ToDatetime(<<2024, 1, 1>>), 9, 2, 3)>>

InitYearEnd ==
    \E ss \in PickUpTo(SowYearEnd, MaxSow) :
        InitWith([i \in 1..2 |-> ClienteRow(i)], 1, VentasYearEnd, ss,
                 <<PrecioRow(ToDatetime(<<2023, 12, 1>>), 3)>>, <<>>, <<>>)

SpecYearEnd == InitYearEnd /\ [][Next]_vars

\* The year and month of a date.
Mes(d) == <<YearOf(d), MonthOf(d)>>

\* C30: every share-of-wallet record whose period is in a calendar month the
\* lookback window touches is read, and its three values are in the columns of
\* its client in every feature row dated in that month, also when the window
\* starts in December and ends in January.
C30_SowOfEveryWindowMonth ==
    (pc # "idle" /\ prediction_input.status = 200) =>
        \A i \in DOMAIN sow :
            (Mes(fecha_desde) = Mes(sow[i].fecha_periodo)
                \/ Mes(fecha_hasta) = Mes(sow[i].fecha_periodo)) =>
               \A c \in {x \in Range(cliente) : x.id_cliente = sow[i].id_cliente} :
                  /\ \E r \in Range(data_sow(fecha_desde, fecha_hasta)) :
                        r.FECHA = sow[i].fecha_periodo /\ r.COD_CLIENTE = c.cod_cliente
                  /\ \A k \in DOMAIN prediction_input.data.rows :
                        LET row == prediction_input.data.rows[k]
                        IN  Mes(ToDatetime(row.FECHA)) = Mes(sow[i].fecha_periodo) =>
                               /\ row.v[Col("POTENCIAL_GRUPO", "", SlotSow(c))]
                                     = Q(sow[i].potencial_grupo)
                               /\ row.v[Col("NICOVITA", "", SlotSow(c))] = Q(sow[i].nicovita)
                               /\ row.v[Col("SOW_MAX_ALCANZABLE", "", SlotSow(c))]
                                     = Q(sow[i].sow_max_alcanzable)

=============================================================================
